---------------------------- MODULE Spec2Model ----------------------------
(***************************************************************************)
(* Centichain node: validator registry and leader election (consensus),    *)
(* ledger (storage, mempool, transaction admission, block ingest) and the  *)
(* block production loop.                                                   *)
(*                                                                         *)
(* Conventions                                                             *)
(*  - Peer ids are the numbers 1..MaxPeers; the order of the numbers is    *)
(*    the lexicographic order of the peer-id strings (Vec<String>::sort).  *)
(*  - Option<T> is modelled with None == -1 for the absent value.          *)
(*  - trust_score (f64) is kept in fixed point, unit 10^-4: 1.0 is 10000,  *)
(*    0.1 is 1000, the floor 0.01 is 100.  Products round down.            *)
(*  - SHA-256 and the memory-hard VDF are modelled by small arithmetic     *)
(*    mixing functions: deterministic, input dependent, not the identity.  *)
(*  - Wall-clock time `now` is in seconds.                                 *)
(***************************************************************************)
EXTENDS Integers, Sequences, FiniteSets, TLC

\* ------------------------------------------------------------------ bounds
MaxPeers == 2
MaxSyncBlocks == 3
MaxReconcileIndex == 2
MaxReconcileCalls == 2
MaxPruneIndex == 4
MaxKeep == 2
MaxPruneCalls == 2
MaxShardQueried == 3
MaxShardSlots == 2
MaxTicks == 2
MaxMissedSlots == 4
MaxRewards == 1
MaxIndex == 1
MaxSaves == 3
MaxSeconds == 6
MaxSlotsAhead == 3
GENESIS_TX_ID == 0
GENESIS_SUPPLY_SCALED == 10000000
U64_MAX_SCALED == 1000000000
MaxSubmits == 3
MaxPoolIds == 2
MaxChallenge == 3
MaxHalvings == 65
MaxSlashRange == 5
MaxSlashed == 6
MaxRunId == 5
MaxSaveCalls == 2
MAX_TXS_PER_BLOCK_SCALED == 3
TX_SIZE_APPROX == 300
MAX_BLOCK_SIZE_SCALED == 1500
RECEIPT_CHANNEL_CAPACITY_SCALED == 1
MaxProduceTxs == 4
RELAY_CONNECTION_TIMEOUT == 10
SYNC_HEIGHT_CHECK_EVERY == 50
SYNC_BATCH_SPAN == 100
SYNC_GENESIS_SPAN == 50
SMALL_AMOUNT == 5000
LARGE_AMOUNT == 20000000
FOREIGN_TX_BASE == 100
FOREIGN_REWARD == 20000
FOREIGN_AMOUNT == 5000

\* ------------------------------------------------------- program constants
None == -1
TRUST_INITIAL == 1000
TRUST_FLOOR == 100
TRUST_MAX == 10000
EPOCH_DURATION == 600
SLOT_DURATION == 2
BASE_QUARANTINE == 300
QUARANTINE_PER_VALIDATOR == 3600
MAX_QUARANTINE == 72 * 3600
VALIDATORS_PER_SHARD == 50
CONSENSUS_VDF_DIFFICULTY == 100000
VDF_BASE_DIFFICULTY == 3000000
VDF_DIFFICULTY_PER_VALIDATOR == 500000
SYSTEM == 0
MIN_FEE == 1000
FEE_DIVISOR == 10000
BLOCK_VDF_BASE == 100
BLOCK_WEIGHT == 100
TARGET_BLOCK_TIME == 2
MIN_SLOT_PROGRESS_FOR_PRODUCTION == 1
INITIAL_REWARD == 126839
HALVING_INTERVAL == 63072000

Peers == 1..MaxPeers
\* The local identity is the least peer id, the remote author the next one.
LocalWallet == CHOOSE p \in Peers : \A q \in Peers : p <= q
ForeignPeer == LocalWallet + 1
\* One registry tick is long enough to add one validator's worth of quarantine.
HourTick == BASE_QUARANTINE + QUARANTINE_PER_VALIDATOR
MaxNow == MaxTicks * HourTick
\* The production loop is entered once the pair registry's quarantine has passed.
MiningStart == 2 * HourTick
Nonces == {7, 11}

VARIABLES
    nodes,          \* Consensus.nodes: HashMap<String, NodeState>
    local_peer_id,  \* Consensus.local_peer_id: Option<String>
    now,            \* SystemTime::now() in seconds
    rewards,        \* number of reward_node calls so far (bounds the run)
    blocks,         \* storage BLOCKS_TABLE: index -> Block
    state,          \* storage STATE_TABLE: address -> balance (absent = 0)
    mempool,        \* Mempool.pending_txs: tx id -> Transaction
    chain_index,    \* AppState.chain_index (AtomicU64)
    wallet,         \* AppState.wallet: Option<Wallet>, by its address
    peer_count,     \* AppState.peer_count (AtomicUsize)
    next_uuid,      \* ids handed out by Uuid::new_v4 so far
    submit_result,  \* what the last submit_transaction returned
    net_in,         \* the message the P2P event loop is about to handle
    saves,          \* number of committed save_block calls (bounds the run)
    pc,             \* position of the block production loop
    current_slot,   \* production loop: slot read at the leadership check
    my_shard,       \* production loop: shard read at the leadership check
    elapsed,        \* production loop: last_production_time.elapsed() in seconds
    last_production_time, \* production loop: when it last started a block
    is_synced,      \* AppState.is_synced (AtomicBool)
    mining_enabled, \* AppState.mining_enabled (AtomicBool)
    validator_count, \* AppState.validator_count (AtomicUsize)
    produced,       \* blocks sent on the outbound block channel, oldest first
    persisted,      \* storage MEMPOOL_TABLE: tx id -> Transaction
    pool_call,      \* the last Mempool call: operation, argument and result
    fn_call,        \* the last call of a library function: arguments and result
    is_running,     \* AppState.is_running (AtomicBool)
    run_id,         \* AppState.run_id (AtomicU64)
    tasks,          \* the spawned background tasks that have not returned yet
    receipt_channel, \* receipts waiting in the receipt channel, oldest first
    last_round,     \* the last round of the production loop past its gates
    relay_connected, \* AppState.relay_connected (AtomicBool)
    phase,          \* where the mining task is before its production loop
    waited,         \* seconds wait_for_relay has slept
    registry_lock,  \* holder of the consensus Mutex, or "free"
    vdf_running,    \* the tasks inside CentichainVDF::solve
    lock_pc,        \* position of each task around the registry lock
    held,           \* the holder of each shared Mutex, or "free"
    lock_at,        \* each handler's or loop's next lock operation
    sync_out,       \* the sync request sent last that awaits its response
    remote_blocks   \* the blocks table of the peer that answers sync requests

regVars == <<nodes, local_peer_id, now, rewards>>
ledgerVars == <<blocks, state, mempool, chain_index, wallet, peer_count,
                next_uuid, submit_result, net_in, saves>>
miningVars == <<pc, current_slot, my_shard, elapsed, last_production_time,
                is_synced, mining_enabled, validator_count, produced>>
poolVars == <<persisted, pool_call>>
runVars == <<is_running, run_id, tasks>>
relayVars == <<relay_connected, phase, waited>>
lockVars == <<registry_lock, vdf_running, lock_pc, held, lock_at>>
syncVars == <<sync_out, remote_blocks>>
sideVars == <<receipt_channel, last_round, relayVars, lockVars, syncVars>>
auxVars == <<fn_call, runVars, sideVars>>
vars == <<regVars, ledgerVars, miningVars, poolVars, auxVars>>

\* ------------------------------------------------------------ hash models
\* SHA-256(peer_id || epoch_le)[0..2] as a u16.
ShardHash(peer_id, epoch) == (peer_id * 40503 + epoch * 9973 + 17) % 65536

\* u64_le(SHA-256(shard_be || epoch_be || slot_be)[0..8]).
SlotRand(shard_id, epoch, slot) ==
    (shard_id * 7919 + epoch * 10473 + slot * 31337 + 12345) % 65521

\* hex(SHA-256(peer_id || "Patience")).
get_vdf_challenge(peer_id) == (peer_id * 577 + 911) % 7919

EmptyProof == 0

\* Mutation of VdfSolve: the proof does not depend on the challenge.
VdfSolveAnyChallenge(difficulty, challenge) == 1 + (difficulty % 1009)

\* CentichainVDF::solve: the SHA-256 digest of a buffer that is filled from
\* SHA-256(challenge) and then stirred difficulty times; a deterministic function
\* of (difficulty, challenge), with SHA-256 taken to be free of collisions on the
\* challenges of the model (block hashes and peer challenges, all below 1000004).
VdfSolve(difficulty, challenge) ==
    1 + ((challenge * 131 + (difficulty % 1009) * 17 + 3) % 1000003)

\* CentichainVDF::verify recomputes the solution and compares.
VdfVerify(difficulty, challenge, proof) == VdfSolve(difficulty, challenge) = proof

\* ------------------------------------------------------------- NodeState
NewNodeState(peer_id, t) ==
    [ peer_id      |-> peer_id,
      join_time    |-> t,
      trust_score  |-> TRUST_INITIAL,
      vdf_proof    |-> None,
      is_verified  |-> FALSE,
      is_active    |-> FALSE,
      activated_at |-> None,
      missed_slots |-> 0 ]

current_uptime(node, t) == IF t >= node.join_time THEN t - node.join_time ELSE 0

\* Mutation of activate: the activation time is stamped again on every call.
ActivateAlways(node, t) == [node EXCEPT !.activated_at = t, !.is_active = TRUE]

activate(node, t) ==
    IF node.activated_at = None
    THEN [node EXCEPT !.activated_at = t, !.is_active = TRUE]
    ELSE node

\* Mutation of is_permanently_eligible: no grandfather clause.
NeverGrandfathered(node) == FALSE

is_permanently_eligible(node) ==
    node.activated_at # None /\ node.trust_score >= TRUST_FLOOR

\* f64 products in fixed point.
TimesHalf(x) == x \div 2
TimesOnePointOne(x) == (x * 11) \div 10
TimesOnePointZeroFive(x) == (x * 105) \div 100
Min(a, b) == IF a <= b THEN a ELSE b
Max(a, b) == IF a >= b THEN a ELSE b

\* ------------------------------------------------------------- Consensus
Len2(ns) == Cardinality(DOMAIN ns)

get_quarantine_duration(ns) ==
    IF Len2(ns) <= 1
    THEN BASE_QUARANTINE
    ELSE Min(BASE_QUARANTINE + Len2(ns) * QUARANTINE_PER_VALIDATOR, MAX_QUARANTINE)

\* Mutation of is_eligible_for_leadership: the quarantine is not consulted.
EligibleWithoutQuarantine(ns, t, peer_id) ==
    /\ peer_id \in DOMAIN ns
    /\ \/ is_permanently_eligible(ns[peer_id])
       \/ Len2(ns) = 1
       \/ (ns[peer_id].is_verified /\ ns[peer_id].trust_score >= TRUST_FLOOR)

is_eligible_for_leadership(ns, t, peer_id) ==
    IF peer_id \notin DOMAIN ns THEN FALSE
    ELSE IF is_permanently_eligible(ns[peer_id]) THEN TRUE
    ELSE IF Len2(ns) = 1 THEN TRUE
    ELSE IF /\ ns[peer_id].is_verified
            /\ current_uptime(ns[peer_id], t) >= get_quarantine_duration(ns)
            /\ ns[peer_id].trust_score >= TRUST_FLOOR
         THEN TRUE
    ELSE FALSE

calculate_active_shards(ns) ==
    IF Len2(ns) < VALIDATORS_PER_SHARD THEN 1 ELSE Len2(ns) \div VALIDATORS_PER_SHARD

get_assigned_shard(ns, peer_id, epoch) ==
    ShardHash(peer_id, epoch) % calculate_active_shards(ns)

\* The orders in which a HashMap with these keys may be iterated.
IterOrders(S) ==
    { o \in [1..Cardinality(S) -> S] : \A i, j \in 1..Cardinality(S) : o[i] = o[j] => i = j }

\* Vec::sort on peer ids (insertion into a sorted prefix).
RECURSIVE InsertSorted(_, _)
InsertSorted(x, s) ==
    IF s = <<>> THEN <<x>>
    ELSE IF x <= Head(s) THEN <<x>> \o s
    ELSE <<Head(s)>> \o InsertSorted(x, Tail(s))

RECURSIVE SortFrom(_, _)
SortFrom(s, acc) ==
    IF s = <<>> THEN acc ELSE SortFrom(Tail(s), InsertSorted(Head(s), acc))

\* Mutation of SortPeers: the candidates are left in the map's iteration order.
UnsortedPeers(s) == s

SortPeers(s) == SortFrom(s, <<>>)

\* get_shard_leader, with the map iterated in the order `order`.
get_shard_leader(ns, order, t, shard_id, slot) ==
    LET epoch == slot \div (EPOCH_DURATION \div SLOT_DURATION)
        Keep(pid) == /\ get_assigned_shard(ns, pid, epoch) = shard_id
                     /\ is_eligible_for_leadership(ns, t, pid)
        filtered == SelectSeq(order, Keep)
        eligible_validators ==
            IF filtered = <<>> /\ Len2(ns) < 2 THEN order ELSE filtered
    IN  IF eligible_validators = <<>> THEN None
        ELSE LET sorted == SortPeers(eligible_validators)
                 index == SlotRand(shard_id, epoch, slot) % Len(sorted)
             IN  sorted[index + 1]

\* Every value a call may return, over the iteration orders of the map.
\* The keys of S from the smallest up.
AscendingOrder(S) ==
    LET n == Cardinality(S)
        least == CHOOSE x \in S : \A y \in S : x <= y
    IN  IF \A i \in 1..n : least + i - 1 \in S
        THEN [i \in 1..n |-> least + i - 1]
        ELSE [i \in 1..n |-> CHOOSE x \in S : Cardinality({y \in S : y < x}) = i - 1]

\* The iteration orders considered for a map with keys S: every order for the
\* registries of the enumerated peers, one order for a larger registry (with two
\* nodes or more get_shard_leader filters and sorts before it picks).
MapOrders(S) ==
    IF Cardinality(S) <= MaxPeers + 1 THEN IterOrders(S) ELSE {AscendingOrder(S)}

ShardLeaders(ns, t, shard_id, slot) ==
    { get_shard_leader(ns, o, t, shard_id, slot) : o \in MapOrders(DOMAIN ns) }

\* ---------------------------------------------------- registry operations
PutNode(ns, peer_id, node) ==
    [p \in (DOMAIN ns) \cup {peer_id} |-> IF p = peer_id THEN node ELSE ns[p]]

register_node(ns, t, peer_id) ==
    IF peer_id \in DOMAIN ns THEN ns ELSE PutNode(ns, peer_id, NewNodeState(peer_id, t))

\* Mutation of slash_node: every slash revokes the activation.
SlashAlwaysDemotes(ns, peer_id) ==
    IF peer_id \notin DOMAIN ns THEN ns
    ELSE [ns EXCEPT ![peer_id] =
             [@ EXCEPT !.missed_slots = @ + 1,
                       !.trust_score = Max(TimesHalf(@), TRUST_FLOOR),
                       !.is_active = FALSE,
                       !.activated_at = None]]

slash_node(ns, peer_id) ==
    IF peer_id \notin DOMAIN ns THEN ns
    ELSE LET n0 == ns[peer_id]
             halved == TimesHalf(n0.trust_score)
             n1 == [n0 EXCEPT !.missed_slots = @ + 1, !.trust_score = halved]
             n2 == IF halved < TRUST_FLOOR
                   THEN [n1 EXCEPT !.trust_score = TRUST_FLOOR,
                                   !.is_active = FALSE,
                                   !.activated_at = None]
                   ELSE n1
         IN  [ns EXCEPT ![peer_id] = n2]

\* Mutation of reward_node: the cap at 1.0 is missing.
RewardUncapped(ns, peer_id) ==
    IF peer_id \notin DOMAIN ns THEN ns
    ELSE [ns EXCEPT ![peer_id].trust_score = TimesOnePointOne(@)]

reward_node(ns, peer_id) ==
    IF peer_id \notin DOMAIN ns THEN ns
    ELSE [ns EXCEPT ![peer_id].trust_score = Min(TimesOnePointOne(@), TRUST_MAX)]

\* verify_peer returns whether the proof was accepted for a registered peer.
verify_peer_ok(ns, peer_id, proof) ==
    /\ VdfVerify(CONSENSUS_VDF_DIFFICULTY, get_vdf_challenge(peer_id), proof)
    /\ peer_id \in DOMAIN ns

verify_peer(ns, peer_id, proof) ==
    IF verify_peer_ok(ns, peer_id, proof)
    THEN [ns EXCEPT ![peer_id].is_verified = TRUE, ![peer_id].vdf_proof = proof]
    ELSE ns

update_node_status(ns, t, node) ==
    IF node.trust_score < TRUST_FLOOR
    THEN IF node.is_active
         THEN [node EXCEPT !.is_active = FALSE, !.activated_at = None]
         ELSE node
    ELSE IF node.activated_at # None THEN node
    ELSE IF \/ Len2(ns) = 1
            \/ (node.is_verified /\ current_uptime(node, t) >= get_quarantine_duration(ns))
         THEN activate(node, t)
         ELSE node

update_active_status(ns, t) == [p \in DOMAIN ns |-> update_node_status(ns, t, ns[p])]

\* Mutation of mark_peer_active: an author that is already activated is nudged
\* and verified again.
MarkActiveAgain(ns, t, peer_id) ==
    IF peer_id \in DOMAIN ns
    THEN [ns EXCEPT ![peer_id] =
             [activate(@, t) EXCEPT !.is_verified = TRUE,
                                    !.trust_score = Min(TimesOnePointZeroFive(@), TRUST_MAX)]]
    ELSE PutNode(ns, peer_id,
             [activate(NewNodeState(peer_id, t), t) EXCEPT !.is_verified = TRUE,
                                                           !.trust_score = TRUST_MAX])

mark_peer_active(ns, t, peer_id) ==
    IF peer_id \in DOMAIN ns
    THEN IF ns[peer_id].activated_at = None
         THEN [ns EXCEPT ![peer_id] =
                  [activate(@, t) EXCEPT !.is_verified = TRUE,
                                         !.trust_score =
                                             Min(TimesOnePointZeroFive(@), TRUST_MAX)]]
         ELSE ns
    ELSE PutNode(ns, peer_id,
             [activate(NewNodeState(peer_id, t), t) EXCEPT !.is_verified = TRUE,
                                                           !.trust_score = TRUST_MAX])

set_local_peer_id(ns, t, peer_id) ==
    IF peer_id \in DOMAIN ns THEN ns
    ELSE PutNode(ns, peer_id,
             [NewNodeState(peer_id, t) EXCEPT !.is_verified = TRUE,
                                              !.trust_score = TRUST_MAX])

force_activate_local(ns, t, local) ==
    IF local # None /\ local \in DOMAIN ns
    THEN [ns EXCEPT ![local] =
             [activate(@, t) EXCEPT !.is_verified = TRUE, !.trust_score = TRUST_MAX]]
    ELSE ns


\* ------------------------------------------------ transactions and blocks
\* calculate_fee: max(1_000, ceil(amount * 0.0001)).
calculate_fee(amount) == Max(MIN_FEE, (amount + FEE_DIVISOR - 1) \div FEE_DIVISOR)

\* u64 saturating arithmetic, with U64_MAX_SCALED standing for u64::MAX: an amount
\* that arrives from the network is any u64, whatever the supply.
saturating_add(a, b) == Min(a + b, U64_MAX_SCALED)
saturating_sub(a, b) == IF a >= b THEN a - b ELSE 0

Tx(id, sender, receiver, amount, shard_id) ==
    [id |-> id, sender |-> sender, receiver |-> receiver, amount |-> amount,
     shard_id |-> shard_id]

\* SHA-256 of one transaction id, and of two concatenated digests.
LeafHash(id) == 1 + ((id * 7919 + 13) % 65521)
PairHash(a, b) == 1 + ((a * 31 + b * 17 + 5) % 65521)

RECURSIVE MerkleLevel(_)
MerkleLevel(hashes) ==
    IF Len(hashes) = 0 THEN <<>>
    ELSE IF Len(hashes) = 1 THEN <<PairHash(hashes[1], hashes[1])>>
    ELSE <<PairHash(hashes[1], hashes[2])>> \o MerkleLevel(SubSeq(hashes, 3, Len(hashes)))

RECURSIVE MerkleReduce(_)
MerkleReduce(hashes) ==
    IF Len(hashes) = 1 THEN hashes[1] ELSE MerkleReduce(MerkleLevel(hashes))

\* calculate_merkle_root: the all-zero root for an empty body.
calculate_merkle_root(transactions) ==
    IF transactions = <<>> THEN 0
    ELSE MerkleReduce([i \in 1..Len(transactions) |-> LeafHash(transactions[i].id)])

\* Block::calculate_hash: SHA-256 over index, timestamp, author, previous_hash,
\* vdf_proof, merkle_root, state_root, nonce, vdf_difficulty, version, total_fees,
\* block_reward, total_reward.
calculate_hash(b) ==
    1 + (( b.index * 31 + b.timestamp * 37 + b.author * 41 + b.previous_hash * 43
        + b.vdf_proof * 47 + b.merkle_root * 53 + b.nonce * 59
        + b.vdf_difficulty * 61 + b.version * 67 + b.total_fees * 71
        + b.block_reward * 73 + b.total_reward * 79 + b.state_root * 83 ) % 1000003)

\* Block::calculate_size: the length of the bincode serialization, which grows
\* with the body and with the hash and proof strings once they are filled in.
calculate_size(b) ==
    200 + 150 * Len(b.transactions)
        + (IF b.hash = 0 THEN 0 ELSE 64)
        + (IF b.vdf_proof = EmptyProof THEN 0 ELSE 64)

\* Block::new, stamped at time t with the drawn nonce.
NewBlock(index, author, transactions, previous_hash, weight, vdf_difficulty, shard_id, total_fees, block_reward, t, nonce) ==
    LET b == [ index             |-> index,
               timestamp         |-> t,
               author            |-> author,
               transactions      |-> transactions,
               previous_hash     |-> previous_hash,
               hash              |-> 0,
               start_time_weight |-> weight,
               vdf_proof         |-> EmptyProof,
               version           |-> 1,
               merkle_root       |-> calculate_merkle_root(transactions),
               state_root        |-> 0,
               nonce             |-> nonce,
               vdf_difficulty    |-> vdf_difficulty,
               size              |-> 0,
               total_fees        |-> total_fees,
               block_reward      |-> block_reward,
               total_reward      |-> total_fees + block_reward,
               shard_id          |-> shard_id ]
        sized == [b EXCEPT !.size = calculate_size(b)]
    IN  [sized EXCEPT !.hash = calculate_hash(sized)]

\* Block::is_vdf_valid: the proof solves the hash of the header with an empty proof.
is_vdf_valid(b) ==
    VdfVerify(b.vdf_difficulty, calculate_hash([b EXCEPT !.vdf_proof = EmptyProof]),
              b.vdf_proof)

\* Mutation of SealBlock: the final hash is taken before the proof is stamped.
SealBlockHashFirst(b) ==
    LET hashed == [b EXCEPT !.hash = calculate_hash(b)]
        solved == [hashed EXCEPT !.vdf_proof = VdfSolve(b.vdf_difficulty, calculate_hash(b))]
    IN  [solved EXCEPT !.size = calculate_size(solved)]

\* The sealing steps after Block::new (solve, stamp the proof, rehash).
SealBlock(b) ==
    LET solved == [b EXCEPT !.vdf_proof = VdfSolve(b.vdf_difficulty, calculate_hash(b))]
        hashed == [solved EXCEPT !.hash = calculate_hash(solved)]
    IN  [hashed EXCEPT !.size = calculate_size(hashed)]

\* ---------------------------------------------------------------- storage
Balance(st, addr) == IF addr \in DOMAIN st THEN st[addr] ELSE 0

PutBalance(st, addr, v) ==
    [a \in (DOMAIN st) \cup {addr} |-> IF a = addr THEN v ELSE st[a]]

\* Mutation of ApplyTx: the sender is debited the amount without the fee.
ApplyTxWithoutFee(st, tx) ==
    LET st1 == IF tx.sender # SYSTEM
               THEN PutBalance(st, tx.sender, saturating_sub(Balance(st, tx.sender), tx.amount))
               ELSE st
    IN  PutBalance(st1, tx.receiver, saturating_add(Balance(st1, tx.receiver), tx.amount))

\* One iteration of save_block's loop over the transactions.
ApplyTx(st, tx) ==
    LET st1 == IF tx.sender # SYSTEM
               THEN PutBalance(st, tx.sender,
                        saturating_sub(Balance(st, tx.sender),
                                       saturating_add(tx.amount, calculate_fee(tx.amount))))
               ELSE st
    IN  PutBalance(st1, tx.receiver, saturating_add(Balance(st1, tx.receiver), tx.amount))

RECURSIVE ApplyTxs(_, _)
ApplyTxs(st, txs) ==
    IF txs = <<>> THEN st ELSE ApplyTxs(ApplyTx(st, Head(txs)), Tail(txs))

PutBlock(bs, b) ==
    [i \in (DOMAIN bs) \cup {b.index} |-> IF i = b.index THEN b ELSE bs[i]]

\* save_block: one write transaction over the blocks and the state table.
save_block_blocks(bs, b) == PutBlock(bs, b)
\* Mutation of save_block_state: only the last transaction of the block is applied.
SaveLastTxOnly(st, b) ==
    IF b.transactions = <<>> THEN st
    ELSE ApplyTx(st, b.transactions[Len(b.transactions)])

save_block_state(st, b) == ApplyTxs(st, b.transactions)

\* get_block(index) is Some(..) exactly for the stored indices.
has_block(bs, index) == index \in DOMAIN bs

RECURSIVE SumBalances(_)
SumBalances(st) ==
    IF DOMAIN st = {} THEN 0
    ELSE LET a == CHOOSE x \in DOMAIN st : TRUE
         IN  st[a] + SumBalances([x \in (DOMAIN st) \ {a} |-> st[x]])

\* ---------------------------------------------------------------- mempool
RECURSIVE SumSpend(_, _, _)
SumSpend(pool, ids, address) ==
    IF ids = {} THEN 0
    ELSE LET i == CHOOSE x \in ids : TRUE
             rest == SumSpend(pool, ids \ {i}, address)
         IN  IF pool[i].sender = address /\ pool[i].sender # SYSTEM
             THEN saturating_add(pool[i].amount, calculate_fee(pool[i].amount)) + rest
             ELSE rest

\* Mutation of get_total_pending_spend: pending transactions are not counted.
NoPendingSpend(pool, address) == 0

get_total_pending_spend(pool, address) == SumSpend(pool, DOMAIN pool, address)

\* Mutation of add_transaction_ok: the duplicate test is missing.
AlwaysAccepted(pool, tx) == TRUE

\* add_transaction: rejects an id that is already pending.
add_transaction_ok(pool, tx) == tx.id \notin DOMAIN pool

add_transaction(pool, tx) ==
    IF add_transaction_ok(pool, tx)
    THEN [i \in (DOMAIN pool) \cup {tx.id} |-> IF i = tx.id THEN tx ELSE pool[i]]
    ELSE pool

\* Storage::save_pending_tx / remove_pending_tx on MEMPOOL_TABLE.
save_pending_tx(tbl, tx) ==
    [i \in (DOMAIN tbl) \cup {tx.id} |-> IF i = tx.id THEN tx ELSE tbl[i]]

remove_pending_txs(tbl, ids) == [i \in (DOMAIN tbl) \ ids |-> tbl[i]]

\* What add_transaction leaves in MEMPOOL_TABLE; a failed write is only logged.
add_transaction_persist(pool, tbl, tx, io_ok) ==
    IF add_transaction_ok(pool, tx) /\ io_ok THEN save_pending_tx(tbl, tx) ELSE tbl

\* remove_transactions: the in-memory pool without the ids.
remove_transactions(pool, ids) == [i \in (DOMAIN pool) \ ids |-> pool[i]]

\* load_from_db: every persisted transaction is inserted under its own id.
load_from_db(pool, tbl) ==
    LET loaded == { tbl[k].id : k \in DOMAIN tbl }
    IN  [i \in (DOMAIN pool) \cup loaded |->
            IF i \in loaded THEN tbl[CHOOSE k \in DOMAIN tbl : tbl[k].id = i] ELSE pool[i]]

NoCall == [op |-> "none"]
AddCall(tx, ok) == [op |-> "add", tx |-> tx, result |-> IF ok THEN "ok" ELSE "err"]
RemoveCall(ids) == [op |-> "remove", ids |-> ids]

\* ------------------------------------------------------- registry actions
EmptyRegistry == [p \in {} |-> NewNodeState(p, 0)]

\* No library call has been made and no background task is running.
AuxIdle ==
    /\ fn_call = NoCall
    /\ is_running = FALSE
    /\ run_id = 0
    /\ tasks = {}
    /\ receipt_channel = <<>>
    /\ last_round = NoCall
    /\ relay_connected = FALSE
    /\ phase = "none"
    /\ waited = 0
    /\ registry_lock = "free"
    /\ vdf_running = {}
    /\ lock_pc = [t \in {"solver", "p2p", "miner"} |-> [at |-> "idle", peer_id |-> None, proof |-> None]]
    /\ held = [l \in {"wallet", "consensus", "mempool", "tx_sender", "receipt_sender"} |-> "free"]
    /\ lock_at = [t \in {"submit_transaction", "get_consensus_status", "get_wallet_info", "miner", "solver", "p2p"} |-> 1]
    /\ sync_out = [kind |-> "none"]
    /\ remote_blocks = [x \in {} |-> 0]

RegInit ==
    /\ nodes = EmptyRegistry
    /\ local_peer_id = None
    /\ now = 0
    /\ rewards = 0

\* The clock advances (registry time scale).
Tick ==
    /\ now + HourTick <= MaxNow
    /\ now' = now + HourTick
    /\ UNCHANGED <<nodes, local_peer_id, rewards>>
    /\ UNCHANGED ledgerVars
    /\ UNCHANGED miningVars
    /\ UNCHANGED <<poolVars, auxVars>>

\* p2p: a connection or identify event registers the peer.
RegisterNode(p) ==
    /\ nodes' = register_node(nodes, now, p)
    /\ UNCHANGED <<local_peer_id, now, rewards>>
    /\ UNCHANGED ledgerVars
    /\ UNCHANGED miningVars
    /\ UNCHANGED <<poolVars, auxVars>>

\* p2p start: the node learns its own identity.
SetLocalPeerId(p) ==
    /\ local_peer_id \in {None, p}
    /\ local_peer_id' = p
    /\ nodes' = set_local_peer_id(nodes, now, p)
    /\ UNCHANGED <<now, rewards>>
    /\ UNCHANGED ledgerVars
    /\ UNCHANGED miningVars
    /\ UNCHANGED <<poolVars, auxVars>>

ForceActivateLocal ==
    /\ local_peer_id # None
    /\ nodes' = force_activate_local(nodes, now, local_peer_id)
    /\ UNCHANGED <<local_peer_id, now, rewards>>
    /\ UNCHANGED ledgerVars
    /\ UNCHANGED miningVars
    /\ UNCHANGED <<poolVars, auxVars>>

\* Proofs a gossiped VdfProofMessage may carry for peer p: the solution at the
\* registry's difficulty, and two that are not.
ProofsFor(p) ==
    { VdfSolve(CONSENSUS_VDF_DIFFICULTY, get_vdf_challenge(p)),
      VdfSolve(CONSENSUS_VDF_DIFFICULTY, get_vdf_challenge(p)) + 1,
      VdfSolve(CONSENSUS_VDF_DIFFICULTY, get_vdf_challenge((p % MaxPeers) + 1)) }

VerifyPeer(p, proof) ==
    /\ nodes' = verify_peer(nodes, p, proof)
    /\ UNCHANGED <<local_peer_id, now, rewards>>
    /\ UNCHANGED ledgerVars
    /\ UNCHANGED miningVars
    /\ UNCHANGED <<poolVars, auxVars>>

SlashNode(p) ==
    /\ p \in DOMAIN nodes
    /\ nodes[p].missed_slots < MaxMissedSlots
    /\ nodes' = slash_node(nodes, p)
    /\ UNCHANGED <<local_peer_id, now, rewards>>
    /\ UNCHANGED ledgerVars
    /\ UNCHANGED miningVars
    /\ UNCHANGED <<poolVars, auxVars>>

RewardNode(p) ==
    /\ p \in DOMAIN nodes
    /\ rewards < MaxRewards
    /\ rewards' = rewards + 1
    /\ nodes' = reward_node(nodes, p)
    /\ UNCHANGED <<local_peer_id, now>>
    /\ UNCHANGED ledgerVars
    /\ UNCHANGED miningVars
    /\ UNCHANGED <<poolVars, auxVars>>

UpdateActiveStatus ==
    /\ nodes' = update_active_status(nodes, now)
    /\ UNCHANGED <<local_peer_id, now, rewards>>
    /\ UNCHANGED ledgerVars
    /\ UNCHANGED miningVars
    /\ UNCHANGED <<poolVars, auxVars>>

MarkPeerActive(p) ==
    /\ nodes' = mark_peer_active(nodes, now, p)
    /\ UNCHANGED <<local_peer_id, now, rewards>>
    /\ UNCHANGED ledgerVars
    /\ UNCHANGED miningVars
    /\ UNCHANGED <<poolVars, auxVars>>

RegNext ==
    \/ Tick
    \/ \E p \in Peers : RegisterNode(p)
    \/ \E p \in Peers : SetLocalPeerId(p)
    \/ ForceActivateLocal
    \/ \E p \in Peers : \E proof \in ProofsFor(p) : VerifyPeer(p, proof)
    \/ \E p \in Peers : SlashNode(p)
    \/ \E p \in Peers : RewardNode(p)
    \/ UpdateActiveStatus
    \/ \E p \in Peers : MarkPeerActive(p)


RegQuiet ==
    /\ nodes = EmptyRegistry
    /\ local_peer_id = None
    /\ now = 0
    /\ rewards = 0

MiningIdle ==
    /\ pc = "stopped"
    /\ current_slot = 0
    /\ my_shard = 0
    /\ elapsed = 0
    /\ last_production_time = 0
    /\ is_synced = FALSE
    /\ mining_enabled = TRUE
    /\ validator_count = 0
    /\ produced = <<>>

\* --------------------------------------------------- messages from the net
NoMsg == [kind |-> "none"]

\* Transactions a foreign block may carry: a coinbase to the foreign author and a
\* transfer from the foreign author to the local wallet.
ForeignCoinbase == Tx(FOREIGN_TX_BASE, SYSTEM, ForeignPeer, FOREIGN_REWARD, 0)
ForeignTransfer == Tx(FOREIGN_TX_BASE + 1, ForeignPeer, LocalWallet, FOREIGN_AMOUNT, 0)
ForeignBodies == { <<ForeignCoinbase>>, <<ForeignTransfer>> }

\* A remote producer stamps its block in one of the slots just before the block
\* arrives, a later index in a later slot.
ForeignTimestamp(index) ==
    Max(0, now - SLOT_DURATION * ((MaxIndex + 1) - Min(index, MaxIndex)))

\* A block as a remote peer builds it; `sealed` tells whether it carries the VDF
\* solution of its header or some other proof.
ForeignBlock(index, body, sealed) ==
    LET b == NewBlock(index, ForeignPeer, body, index, BLOCK_WEIGHT, BLOCK_VDF_BASE, 0, 0, 0,
                      ForeignTimestamp(index), 7)
        bad == [b EXCEPT !.vdf_proof = VdfSolve(b.vdf_difficulty, calculate_hash(b)) + 1]
    IN  IF sealed THEN SealBlock(b) ELSE [bad EXCEPT !.hash = calculate_hash(bad)]

ForeignBlocks ==
    { ForeignBlock(i, body, sealed) :
        i \in 0..MaxIndex, body \in ForeignBodies, sealed \in BOOLEAN }

\* Batches a peer may answer GetBlocksRange with: one block, or two blocks in
\* index order (the second may repeat the first's index).
ForeignBatches ==
    { <<b>> : b \in ForeignBlocks } \cup
    { <<b, c>> : b \in { x \in ForeignBlocks : x.index = 0 }, c \in ForeignBlocks }

NetMessages ==
    { [kind |-> "gossip_block", block |-> b] : b \in ForeignBlocks } \cup
    { [kind |-> "sync_block", block |-> b] : b \in ForeignBlocks } \cup
    { [kind |-> "sync_batch", blocks |-> bs] : bs \in ForeignBatches }

\* ---------------------------------------------------------- ledger actions
EmptyTable == [x \in {} |-> 0]

LedgerFresh ==
    /\ blocks = EmptyTable
    /\ state = EmptyTable
    /\ mempool = EmptyTable
    /\ chain_index = 0
    /\ next_uuid = 0
    /\ submit_result = "none"
    /\ net_in = NoMsg
    /\ saves = 0
    /\ persisted = EmptyTable
    /\ pool_call = NoCall
    /\ AuxIdle

\* The swarm hands the next event to the P2P loop.
Deliver(m) ==
    /\ net_in = NoMsg
    /\ saves < MaxSaves
    /\ net_in' = m
    /\ UNCHANGED <<blocks, state, mempool, chain_index, wallet, peer_count,
                   next_uuid, submit_result, saves>>
    /\ UNCHANGED regVars
    /\ UNCHANGED miningVars
    /\ UNCHANGED <<poolVars, auxVars>>

\* p2p.rs, gossipsub message on the shard's block topic.
HandleGossipBlock ==
    /\ net_in.kind = "gossip_block"
    /\ blocks' = save_block_blocks(blocks, net_in.block)
    /\ state' = save_block_state(state, net_in.block)
    /\ chain_index' = net_in.block.index
    /\ saves' = saves + 1
    /\ net_in' = NoMsg
    /\ UNCHANGED <<mempool, wallet, peer_count, next_uuid, submit_result>>
    /\ UNCHANGED regVars
    /\ UNCHANGED miningVars
    /\ UNCHANGED <<poolVars, auxVars>>

\* The guarded save shared by the two sync-response handlers.
SyncSave(led, b) ==
    IF ~has_block(led.blocks, b.index)
    THEN [ blocks      |-> save_block_blocks(led.blocks, b),
           state       |-> save_block_state(led.state, b),
           chain_index |-> b.index,
           saves       |-> led.saves + 1 ]
    ELSE led

RECURSIVE SyncSaveAll(_, _)
SyncSaveAll(led, bs) ==
    IF bs = <<>> THEN led ELSE SyncSaveAll(SyncSave(led, Head(bs)), Tail(bs))

Ledger == [blocks |-> blocks, state |-> state, chain_index |-> chain_index,
           saves |-> saves]

\* p2p.rs, SyncResponse::Block(Some(block)).
HandleSyncBlock ==
    /\ net_in.kind = "sync_block"
    /\ LET led == SyncSave(Ledger, net_in.block)
       IN  /\ blocks' = led.blocks
           /\ state' = led.state
           /\ chain_index' = led.chain_index
           /\ saves' = led.saves
    /\ net_in' = NoMsg
    /\ UNCHANGED <<mempool, wallet, peer_count, next_uuid, submit_result>>
    /\ UNCHANGED regVars
    /\ UNCHANGED miningVars
    /\ sync_out' = IF ~has_block(blocks, net_in.block.index) /\ net_in.block.index % SYNC_HEIGHT_CHECK_EVERY = 0
                   THEN [kind |-> "GetHeight"] ELSE sync_out
    /\ UNCHANGED <<poolVars, fn_call, runVars, receipt_channel, last_round, relayVars, lockVars, remote_blocks>>

\* p2p.rs, SyncResponse::BlocksBatch(blocks).
HandleSyncBatch ==
    /\ net_in.kind = "sync_batch"
    /\ LET led == SyncSaveAll(Ledger, net_in.blocks)
       IN  /\ blocks' = led.blocks
           /\ state' = led.state
           /\ chain_index' = led.chain_index
           /\ saves' = led.saves
    /\ net_in' = NoMsg
    /\ UNCHANGED <<mempool, wallet, peer_count, next_uuid, submit_result>>
    /\ UNCHANGED regVars
    /\ UNCHANGED miningVars
    /\ sync_out' = [kind |-> "GetHeight"]
    /\ UNCHANGED <<poolVars, fn_call, runVars, receipt_channel, last_round, relayVars, lockVars, remote_blocks>>


\* ------------------------------------------------------ submit_transaction
\* receiver.parse::<PeerId>() succeeds exactly for network identities.
IsPeerId(receiver) == receiver \in Peers

\* The outcome of submit_transaction(receiver, amount), in the order of its checks.
SubmitOutcome(receiver, amount) ==
    IF peer_count = 0 THEN "err_no_peers"
    ELSE IF ~IsPeerId(receiver) THEN "err_invalid_receiver"
    ELSE IF wallet = None THEN "err_no_wallet"
    ELSE IF receiver = wallet THEN "err_own_address"
    ELSE LET dynamic_fee == calculate_fee(amount)
             balance == Balance(state, wallet)
             pending_spend == get_total_pending_spend(mempool, wallet)
             effective_balance == saturating_sub(balance, pending_spend)
             total_required == saturating_add(amount, dynamic_fee)
         IN  IF total_required > effective_balance THEN "err_insufficient_funds"
             ELSE IF ~add_transaction_ok(mempool, Tx(next_uuid + 1, wallet, receiver, amount, 0))
                  THEN "err_duplicate"
             ELSE "ok"

SubmitTransaction(receiver, amount) ==
    /\ next_uuid < MaxSubmits
    /\ LET outcome == SubmitOutcome(receiver, amount)
       IN  /\ submit_result' = outcome
           /\ IF outcome = "ok"
              THEN /\ mempool' = add_transaction(mempool,
                          Tx(next_uuid + 1, wallet,
                             receiver, amount,
                             get_assigned_shard(nodes, wallet, 0)))
                   /\ persisted' = save_pending_tx(persisted,
                          Tx(next_uuid + 1, wallet, receiver, amount,
                             get_assigned_shard(nodes, wallet, 0)))
                   /\ pool_call' = AddCall(Tx(next_uuid + 1, wallet, receiver, amount,
                                              get_assigned_shard(nodes, wallet, 0)), TRUE)
                   /\ next_uuid' = next_uuid + 1
              ELSE UNCHANGED <<mempool, next_uuid, persisted, pool_call>>
    /\ UNCHANGED <<blocks, state, chain_index, wallet, peer_count, net_in, saves>>
    /\ UNCHANGED regVars
    /\ UNCHANGED miningVars
    /\ UNCHANGED auxVars

\* Receivers and amounts a user may type: a peer id or not, below and above the
\* amount where the proportional fee exceeds the minimum fee.
InvalidAddress == MaxPeers + 1
SubmitReceivers == Peers \cup {InvalidAddress}
SubmitAmounts == {0, SMALL_AMOUNT, LARGE_AMOUNT}
\* Balances the wallet may hold when the user starts submitting.
InitialBalances ==
    {0, SMALL_AMOUNT + MIN_FEE, 2 * LARGE_AMOUNT,
     LARGE_AMOUNT + calculate_fee(LARGE_AMOUNT) + SMALL_AMOUNT + MIN_FEE}

SubmitInit ==
    /\ RegQuiet
    /\ MiningIdle
    /\ blocks = EmptyTable
    /\ mempool = EmptyTable
    /\ chain_index = 0
    /\ next_uuid = 0
    /\ submit_result = "none"
    /\ net_in = NoMsg
    /\ saves = 0
    /\ wallet \in {None, LocalWallet}
    /\ peer_count \in {0, 1}
    /\ \E bal \in InitialBalances :
          state = IF bal = 0 THEN EmptyTable ELSE PutBalance(EmptyTable, LocalWallet, bal)
    /\ persisted = EmptyTable
    /\ pool_call = NoCall
    /\ AuxIdle

SubmitNext == \E receiver \in SubmitReceivers, amount \in SubmitAmounts :
                  SubmitTransaction(receiver, amount)

SubmitSpec == SubmitInit /\ [][SubmitNext]_vars


\* Mutation of ShiftRight: the reward is never halved.
ShiftNone(x, k) == x

\* ---------------------------------------------------- block production loop
RECURSIVE ShiftRight(_, _)
ShiftRight(x, k) == IF k = 0 THEN x ELSE ShiftRight(x \div 2, k - 1)

\* A u64 block index beyond the range of the checker's integers, as a pair of
\* limbs: the value is hi * LIMB + lo with lo < LIMB.
LIMB == 1000
Wide(index) == [hi |-> index \div LIMB, lo |-> index % LIMB]

\* The index k * HALVING_INTERVAL + r, for r below HALVING_INTERVAL.
WideAt(k, r) == [hi |-> k * (HALVING_INTERVAL \div LIMB) + r \div LIMB, lo |-> r % LIMB]

\* Integer division of a wide value by a divisor that is a multiple of LIMB.
WideDiv(w, divisor) == w.hi \div (divisor \div LIMB)

\* calculate_mining_reward: the genesis supply for index 0, the halved reward after.
calculate_mining_reward_wide(w) ==
    IF w.hi = 0 /\ w.lo = 0 THEN GENESIS_SUPPLY_SCALED
    ELSE LET halving_count == WideDiv(w, HALVING_INTERVAL)
         IN  IF halving_count >= 64 THEN 0 ELSE ShiftRight(INITIAL_REWARD, halving_count)

calculate_mining_reward(index) == calculate_mining_reward_wide(Wide(index))

\* get_shard_leader as a value: the map's iteration order does not show in it.
GetShardLeader(ns, t, shard_id, slot) ==
    CHOOSE l \in ShardLeaders(ns, t, shard_id, slot) : TRUE

\* Consensus::slash_missed_slots: the registry after slashing the expected leader
\* of every slot of [start_slot, end_slot], each looked up in the registry as the
\* earlier slashes left it.
RECURSIVE slash_missed_slots_stale(_, _, _, _, _, _, _)
slash_missed_slots_stale(ns0, ns, t, start_slot, end_slot, shard_id, slashed_nodes) ==
    IF start_slot > end_slot THEN [nodes |-> ns, slashed_nodes |-> slashed_nodes]
    ELSE LET expected_leader == GetShardLeader(ns0, t, shard_id, start_slot)
         IN  IF expected_leader # None
             THEN slash_missed_slots_stale(ns0, slash_node(ns, expected_leader), t,
                                           start_slot + 1, end_slot, shard_id,
                                           Append(slashed_nodes, expected_leader))
             ELSE slash_missed_slots_stale(ns0, ns, t, start_slot + 1, end_slot, shard_id,
                                           slashed_nodes)

\* Mutation of slash_missed_slots_run: every leader is looked up in the registry
\* as it was before the call.
SlashLeadersOfOldRegistry(ns, t, start_slot, end_slot, shard_id, slashed_nodes) ==
    slash_missed_slots_stale(ns, ns, t, start_slot, end_slot, shard_id, slashed_nodes)

\* The result carries both the registry and the returned list.
RECURSIVE slash_missed_slots_run(_, _, _, _, _, _)
slash_missed_slots_run(ns, t, start_slot, end_slot, shard_id, slashed_nodes) ==
    IF start_slot > end_slot THEN [nodes |-> ns, slashed_nodes |-> slashed_nodes]
    ELSE LET expected_leader == GetShardLeader(ns, t, shard_id, start_slot)
         IN  IF expected_leader # None
             THEN slash_missed_slots_run(slash_node(ns, expected_leader), t, start_slot + 1,
                                         end_slot, shard_id,
                                         Append(slashed_nodes, expected_leader))
             ELSE slash_missed_slots_run(ns, t, start_slot + 1, end_slot, shard_id,
                                         slashed_nodes)

slash_missed_slots(ns, t, start_slot, end_slot, shard_id) ==
    slash_missed_slots_run(ns, t, start_slot, end_slot, shard_id, <<>>).nodes

\* Mutation of MiningSlashMissedSlots: the range runs through the new block's slot.
SlashThroughNewSlot(ns, bs, t, target_idx, new_block, shard_id) ==
    IF target_idx = 0 THEN ns
    ELSE LET prev_block_timestamp ==
                 IF has_block(bs, target_idx - 1) THEN bs[target_idx - 1].timestamp ELSE 0
             prev_slot == prev_block_timestamp \div SLOT_DURATION
             new_block_slot == new_block.timestamp \div SLOT_DURATION
         IN  IF new_block_slot > prev_slot + 1
             THEN slash_missed_slots(ns, t, prev_slot + 1, new_block_slot, shard_id)
             ELSE ns

\* mining.rs slash_missed_slots: the slots strictly between the previous block's
\* and the new block's.
MiningSlashMissedSlots(ns, bs, t, target_idx, new_block, shard_id) ==
    IF target_idx = 0 THEN ns
    ELSE LET prev_block_timestamp ==
                 IF has_block(bs, target_idx - 1) THEN bs[target_idx - 1].timestamp ELSE 0
             prev_slot == prev_block_timestamp \div SLOT_DURATION
             new_block_slot == new_block.timestamp \div SLOT_DURATION
         IN  IF new_block_slot > prev_slot + 1
             THEN slash_missed_slots(ns, t, prev_slot + 1, new_block_slot - 1, shard_id)
             ELSE ns

create_coinbase_tx(receiver, block_index, block_reward, total_fees, uuid) ==
    IF block_index = 0
    THEN Tx(GENESIS_TX_ID, SYSTEM, receiver, block_reward, 0)
    ELSE Tx(uuid, SYSTEM, receiver, block_reward + total_fees, 0)

RECURSIVE SumFees(_, _)
SumFees(pool, ids) ==
    IF ids = {} THEN 0
    ELSE LET i == CHOOSE x \in ids : TRUE
         IN  calculate_fee(pool[i].amount) + SumFees(pool, ids \ {i})

\* chain::Receipt as collect_shard_transactions builds it (the merkle proof is
\* empty).
Receipt(tx, source_shard, target_shard) ==
    [original_tx_id |-> tx.id, source_shard |-> source_shard,
     target_shard |-> target_shard, amount |-> tx.amount, receiver |-> tx.receiver,
     block_hash |-> "pending", status |-> "Pending"]

\* Mutation of CollectFrom: the shard of a pending transaction is not consulted.
RECURSIVE CollectAnyShard(_, _, _, _, _)
CollectAnyShard(ns, pool, order, my_shard_id, acc) ==
    IF order = <<>> THEN acc
    ELSE LET tx == pool[Head(order)]
         IN  IF Len(acc.block_txs) >= MAX_TXS_PER_BLOCK_SCALED THEN acc
             ELSE IF acc.current_size + TX_SIZE_APPROX > MAX_BLOCK_SIZE_SCALED THEN acc
             ELSE LET target_shard == get_assigned_shard(ns, tx.receiver, 0)
                  IN  CollectAnyShard(ns, pool, Tail(order), my_shard_id,
                         [block_txs |-> Append(acc.block_txs, tx),
                          receipts |-> IF target_shard # my_shard_id
                                       THEN Append(acc.receipts,
                                                   Receipt(tx, my_shard_id, target_shard))
                                       ELSE acc.receipts,
                          current_size |-> acc.current_size + TX_SIZE_APPROX])

\* The loop of collect_shard_transactions over the rest of the snapshot: skip the
\* other shards' transactions, stop at the first cap, build a receipt when the
\* receiver's shard (epoch 0) is not the producer's, append.
RECURSIVE CollectFrom(_, _, _, _, _)
CollectFrom(ns, pool, order, my_shard_id, acc) ==
    IF order = <<>> THEN acc
    ELSE LET tx == pool[Head(order)]
         IN  IF tx.shard_id # my_shard_id
             THEN CollectFrom(ns, pool, Tail(order), my_shard_id, acc)
             ELSE IF Len(acc.block_txs) >= MAX_TXS_PER_BLOCK_SCALED THEN acc
             ELSE IF acc.current_size + TX_SIZE_APPROX > MAX_BLOCK_SIZE_SCALED THEN acc
             ELSE LET target_shard == get_assigned_shard(ns, tx.receiver, 0)
                  IN  CollectFrom(ns, pool, Tail(order), my_shard_id,
                         [block_txs |-> Append(acc.block_txs, tx),
                          receipts |-> IF target_shard # my_shard_id
                                       THEN Append(acc.receipts,
                                                   Receipt(tx, my_shard_id, target_shard))
                                       ELSE acc.receipts,
                          current_size |-> acc.current_size + TX_SIZE_APPROX])

\* collect_shard_transactions: the coinbase, then the snapshot's transactions in
\* the snapshot's order; returns the block's transactions and the receipts.
collect_shard_transactions(ns, coinbase_tx, pool, order, my_shard_id) ==
    CollectFrom(ns, pool, order, my_shard_id,
                [block_txs |-> <<coinbase_tx>>, receipts |-> <<>>,
                 current_size |-> TX_SIZE_APPROX])

\* Sender::try_send of each receipt in turn on the bounded receipt channel: a
\* receipt that finds the channel full is dropped.
RECURSIVE try_send_all(_, _)
try_send_all(channel, receipts) ==
    IF receipts = <<>> THEN channel
    ELSE try_send_all(IF Len(channel) < RECEIPT_CHANNEL_CAPACITY_SCALED
                      THEN Append(channel, Head(receipts)) ELSE channel,
                      Tail(receipts))

\* The clock advances by one second.
MineTick ==
    /\ now < MiningStart + MaxSeconds
    /\ now' = now + 1
    /\ UNCHANGED <<nodes, local_peer_id, rewards>>
    /\ UNCHANGED ledgerVars
    /\ UNCHANGED miningVars
    /\ UNCHANGED <<poolVars, auxVars>>

\* Loop head: sleep, update_active_status, the synced check.
MineTop ==
    /\ pc = "top"
    /\ nodes' = update_active_status(nodes, now)
    /\ pc' = IF is_synced THEN "leadership" ELSE "top"
    /\ UNCHANGED <<local_peer_id, now, rewards>>
    /\ UNCHANGED ledgerVars
    /\ UNCHANGED <<current_slot, my_shard, elapsed, last_production_time,
                   is_synced, mining_enabled, validator_count, produced>>
    /\ UNCHANGED <<poolVars, auxVars>>

\* The leadership check: slot, epoch, shard and leader under one lock.
MineLeadership ==
    /\ pc = "leadership"
    /\ LET slot == now \div SLOT_DURATION
           epoch == now \div EPOCH_DURATION
           shard == IF local_peer_id # None
                    THEN get_assigned_shard(nodes, local_peer_id, epoch) ELSE 0
       IN  \E leader \in ShardLeaders(nodes, now, shard, slot) :
              /\ current_slot' = slot
              /\ my_shard' = shard
              /\ elapsed' = now - last_production_time
              /\ pc' = IF mining_enabled /\ leader # None /\ leader = local_peer_id
                       THEN "timing" ELSE "top"
    /\ UNCHANGED regVars
    /\ UNCHANGED ledgerVars
    /\ UNCHANGED <<last_production_time, is_synced, mining_enabled, validator_count,
                   produced>>
    /\ UNCHANGED <<poolVars, auxVars>>

\* The slot timing check: at least one second into the slot.
MineSlotTiming ==
    /\ pc = "timing"
    /\ pc' = IF now % SLOT_DURATION < MIN_SLOT_PROGRESS_FOR_PRODUCTION
             THEN "top" ELSE "produce"
    /\ UNCHANGED regVars
    /\ UNCHANGED ledgerVars
    /\ UNCHANGED <<current_slot, my_shard, elapsed, last_production_time,
                   is_synced, mining_enabled, validator_count, produced>>
    /\ UNCHANGED <<poolVars, auxVars>>

\* The duplicate and fill gates, then assembly, the receipts, sealing, slashing,
\* saving and publishing of the block; a failed save ends the round after the
\* receipts and the slashing.
ProduceRound(nonce, io_ok) ==
    /\ pc = "produce"
    /\ pc' = "top"
    /\ LET current_idx == chain_index
           duplicate == /\ has_block(blocks, current_idx)
                        /\ blocks[current_idx].timestamp \div SLOT_DURATION >= current_slot
           too_soon == /\ elapsed < TARGET_BLOCK_TIME
                       /\ Cardinality(DOMAIN mempool) < 100
       IN  IF duplicate \/ too_soon
           THEN /\ UNCHANGED regVars
                /\ UNCHANGED ledgerVars
                /\ UNCHANGED <<current_slot, my_shard, elapsed, last_production_time,
                               is_synced, mining_enabled, validator_count, produced>>
                /\ UNCHANGED <<poolVars, auxVars>>
           ELSE \E order \in IterOrders(DOMAIN mempool) :
                LET target_idx == IF DOMAIN blocks = {} THEN 0 ELSE current_idx + 1
                    block_reward == IF target_idx = 0 THEN GENESIS_SUPPLY_SCALED
                                    ELSE calculate_mining_reward(target_idx)
                    total_fees == SumFees(mempool, DOMAIN mempool)
                    coinbase_tx == create_coinbase_tx(wallet, target_idx, block_reward,
                                                      total_fees, next_uuid + 1)
                    collected == collect_shard_transactions(nodes, coinbase_tx, mempool,
                                                            order, my_shard)
                    block_txs == collected.block_txs
                    prev_hash == IF target_idx # 0 /\ has_block(blocks, current_idx)
                                 THEN blocks[current_idx].hash ELSE 0
                    adaptive_difficulty == IF validator_count <= 1 THEN BLOCK_VDF_BASE
                                           ELSE BLOCK_VDF_BASE + validator_count * 100
                    new_block == SealBlock(NewBlock(target_idx, wallet, block_txs,
                                     prev_hash, BLOCK_WEIGHT, adaptive_difficulty,
                                     my_shard, total_fees,
                                     block_reward, now, nonce))
                IN  /\ last_production_time' = now
                    /\ receipt_channel' = try_send_all(receipt_channel,
                                                       collected.receipts)
                    /\ nodes' = MiningSlashMissedSlots(nodes, blocks, now, target_idx,
                                                       new_block, my_shard)
                    /\ next_uuid' = next_uuid + 1
                    /\ last_round' = [op |-> "produce", saved |-> io_ok,
                                      block |-> new_block, my_shard |-> my_shard,
                                      pending_txs |-> mempool,
                                      receipts |-> collected.receipts,
                                      channel_before |-> receipt_channel,
                                      nodes_before |-> nodes,
                                      blocks_before |-> blocks]
                    /\ IF io_ok
                       THEN /\ blocks' = save_block_blocks(blocks, new_block)
                            /\ state' = save_block_state(state, new_block)
                            /\ saves' = saves + 1
                            /\ chain_index' = new_block.index
                            /\ produced' = Append(produced, new_block)
                            /\ mempool' = remove_transactions(mempool, DOMAIN mempool)
                            /\ persisted' = remove_pending_txs(persisted, DOMAIN mempool)
                            /\ pool_call' = RemoveCall(DOMAIN mempool)
                       ELSE UNCHANGED <<blocks, state, saves, chain_index, produced,
                                        mempool, persisted, pool_call>>
                    /\ UNCHANGED <<fn_call, runVars, relayVars, lockVars, syncVars>>
                    /\ UNCHANGED <<local_peer_id, now, rewards, wallet, peer_count,
                                   submit_result, net_in, current_slot, my_shard,
                                   elapsed, is_synced, mining_enabled, validator_count>>

MineProduce == \E nonce \in Nonces, io_ok \in BOOLEAN : ProduceRound(nonce, io_ok)

\* Registries the node may hold when it enters the production loop at
\* MiningStart: itself alone, force-activated as the creator of genesis; or itself
\* and a peer that registered at time 0, proved its patience and was promoted.
LocalRegistry ==
    force_activate_local(set_local_peer_id(EmptyRegistry, 0, LocalWallet), 0, LocalWallet)

PairRegistry ==
    update_active_status(
        verify_peer(register_node(LocalRegistry, 0, ForeignPeer), ForeignPeer,
                    VdfSolve(CONSENSUS_VDF_DIFFICULTY, get_vdf_challenge(ForeignPeer))),
        MiningStart)

\* create_genesis_block: the block it builds and seals at time t.
create_genesis_block(wallet_addr, t, nonce) ==
    SealBlock(NewBlock(0, wallet_addr,
                       <<Tx(GENESIS_TX_ID, SYSTEM, wallet_addr, GENESIS_SUPPLY_SCALED, 0)>>,
                       0, BLOCK_WEIGHT, BLOCK_VDF_BASE, 0, 0, GENESIS_SUPPLY_SCALED,
                       t, nonce))

\* The registry of a node that has only learnt its own identity.
FreshRegistry == set_local_peer_id(EmptyRegistry, MiningStart, LocalWallet)

\* initialize_network_state found no peers and no local chain: create_genesis_block
\* builds, seals and saves block 0, activates the local node and marks it synced.
MineCreateGenesis ==
    /\ pc = "genesis"
    /\ \E nonce \in Nonces :
          LET genesis_block == create_genesis_block(wallet, now, nonce)
          IN  /\ blocks' = save_block_blocks(blocks, genesis_block)
              /\ state' = save_block_state(state, genesis_block)
    /\ saves' = saves + 1
    /\ chain_index' = 0
    /\ nodes' = force_activate_local(nodes, now, local_peer_id)
    /\ is_synced' = TRUE
    /\ last_production_time' = now
    /\ pc' = "top"
    /\ UNCHANGED <<local_peer_id, now, rewards, mempool, wallet, peer_count, next_uuid,
                   submit_result, net_in, current_slot, my_shard, elapsed,
                   mining_enabled, validator_count, produced>>
    /\ UNCHANGED <<poolVars, auxVars>>

\* The chain's first block, sealed one slot before MiningStart.
GenesisBlock == create_genesis_block(LocalWallet, MiningStart - SLOT_DURATION, 7)

MiningInit ==
    /\ local_peer_id = LocalWallet
    /\ now = MiningStart
    /\ rewards = 0
    /\ mempool = EmptyTable
    /\ chain_index = 0
    /\ wallet = LocalWallet
    /\ next_uuid = 0
    /\ submit_result = "none"
    /\ net_in = NoMsg
    /\ current_slot = 0
    /\ my_shard = 0
    /\ elapsed = 0
    /\ last_production_time = MiningStart
    /\ mining_enabled = TRUE
    /\ produced = <<>>
    /\ persisted = EmptyTable
    /\ pool_call = NoCall
    /\ AuxIdle
    /\ \/ /\ nodes \in {LocalRegistry, PairRegistry}
          /\ blocks = PutBlock(EmptyTable, GenesisBlock)
          /\ state = save_block_state(EmptyTable, GenesisBlock)
          /\ saves = 1
          /\ pc = "top"
          /\ is_synced = TRUE
          /\ validator_count = Len2(nodes)
          /\ peer_count = Len2(nodes) - 1
       \/ /\ nodes = FreshRegistry
          /\ blocks = EmptyTable
          /\ state = EmptyTable
          /\ saves = 0
          /\ pc = "genesis"
          /\ is_synced = FALSE
          /\ validator_count = 0
          /\ peer_count = 0

MiningNext ==
    \/ MineCreateGenesis
    \/ MineTick
    \/ MineTop
    \/ MineLeadership
    \/ MineSlotTiming
    \/ MineProduce

MiningSpec == MiningInit /\ [][MiningNext]_vars

LedgerInit ==
    /\ RegQuiet
    /\ MiningIdle
    /\ LedgerFresh
    /\ wallet = LocalWallet
    /\ peer_count = 1

LedgerNext ==
    \/ \E m \in NetMessages : Deliver(m)
    \/ HandleGossipBlock
    \/ HandleSyncBlock
    \/ HandleSyncBatch

LedgerSpec == LedgerInit /\ [][LedgerNext]_vars


Init == RegInit /\ LedgerFresh /\ MiningIdle /\ wallet = None /\ peer_count = 0
Next == RegNext
Spec == Init /\ [][Next]_vars


\* ------------------------------------------------------------ VDF calls
\* A caller solves the VDF for one challenge and then verifies the proof it got
\* against a challenge of its choice.
VdfChallenges ==
    (0..MaxChallenge) \cup { get_vdf_challenge(p) : p \in 1..MaxPeers }
                      \cup { GenesisBlock.hash, GenesisBlock.hash + 7919 }

VdfDifficulties == {1, BLOCK_VDF_BASE, CONSENSUS_VDF_DIFFICULTY}

SolveCall(difficulty, challenge) ==
    /\ fn_call' = [ op         |-> "solve",
                    difficulty |-> difficulty,
                    challenge  |-> challenge,
                    proof      |-> VdfSolve(difficulty, challenge) ]
    /\ UNCHANGED <<regVars, ledgerVars, miningVars, poolVars>>
    /\ UNCHANGED <<runVars, sideVars>>

VerifyCall(difficulty, challenge) ==
    /\ fn_call.op \in {"solve", "verify"}
    /\ LET solved == IF fn_call.op = "solve" THEN fn_call ELSE fn_call.solved
       IN  fn_call' = [ op         |-> "verify",
                        difficulty |-> difficulty,
                        challenge  |-> challenge,
                        solved     |-> solved,
                        result     |-> VdfVerify(difficulty, challenge, solved.proof) ]
    /\ UNCHANGED <<regVars, ledgerVars, miningVars, poolVars>>
    /\ UNCHANGED <<runVars, sideVars>>

VdfInit == Init

VdfNext ==
    \E difficulty \in VdfDifficulties, challenge \in VdfChallenges :
        \/ SolveCall(difficulty, challenge)
        \/ VerifyCall(difficulty, challenge)

VdfSpec == VdfInit /\ [][VdfNext]_vars

\* -------------------------------------------------------- reward calls
\* calculate_mining_reward is called for an index k * HALVING_INTERVAL + r; the
\* record keeps the call before it for comparison.
HalvingCounts == 0..MaxHalvings
RewardInputs ==
    { <<k, r>> : k \in HalvingCounts, r \in {0, HALVING_INTERVAL - 1} } \cup { <<0, 1>> }

RewardCall(k, r) ==
    /\ fn_call' = [ op     |-> "reward",
                    k      |-> k,
                    r      |-> r,
                    reward |-> calculate_mining_reward_wide(WideAt(k, r)),
                    prev   |-> IF fn_call.op = "reward"
                               THEN [k |-> fn_call.k, r |-> fn_call.r,
                                     reward |-> fn_call.reward]
                               ELSE [k |-> k, r |-> r,
                                     reward |-> calculate_mining_reward_wide(WideAt(k, r))] ]
    /\ UNCHANGED <<regVars, ledgerVars, miningVars, poolVars>>
    /\ UNCHANGED <<runVars, sideVars>>

RewardInit == Init

RewardNext == \E i \in RewardInputs : RewardCall(i[1], i[2])

RewardSpec == RewardInit /\ [][RewardNext]_vars

\* ------------------------------------------------- slash_missed_slots calls
\* A registry of one or two validators, and calls of slash_missed_slots over the
\* ranges of a window of slots.
FirstSlot == MiningStart \div SLOT_DURATION
SlashSlots == FirstSlot..(FirstSlot + MaxSlashRange)

\* A second validator that registered just now and was activated for a block it
\* authored: it is still under quarantine.
RecentPairRegistry ==
    mark_peer_active(register_node(LocalRegistry, MiningStart, ForeignPeer), MiningStart,
                     ForeignPeer)

\* Shard 0 is the only shard of a small registry; shard 1 has no validators.
SlashShards == {0, 1}

SlashMissedSlots(start_slot, end_slot, shard_id) ==
    /\ \A p \in DOMAIN nodes : nodes[p].missed_slots < MaxSlashed
    /\ LET run == slash_missed_slots_run(nodes, now, start_slot, end_slot, shard_id, <<>>)
       IN  /\ nodes' = run.nodes
           /\ fn_call' = [ op            |-> "slash_missed_slots",
                           start_slot    |-> start_slot,
                           end_slot      |-> end_slot,
                           shard_id      |-> shard_id,
                           t             |-> now,
                           before        |-> nodes,
                           after         |-> run.nodes,
                           slashed_nodes |-> run.slashed_nodes ]
    /\ UNCHANGED <<local_peer_id, now, rewards>>
    /\ UNCHANGED <<ledgerVars, miningVars, poolVars>>
    /\ UNCHANGED <<runVars, sideVars>>

SlashInit ==
    /\ nodes \in {LocalRegistry, PairRegistry, RecentPairRegistry}
    /\ local_peer_id = LocalWallet
    /\ now = MiningStart
    /\ rewards = 0
    /\ MiningIdle
    /\ LedgerFresh
    /\ wallet = LocalWallet
    /\ peer_count = Len2(nodes) - 1

SlashNext ==
    \E start_slot \in SlashSlots, end_slot \in SlashSlots, shard_id \in SlashShards :
        SlashMissedSlots(start_slot, end_slot, shard_id)

SlashSpec == SlashInit /\ [][SlashNext]_vars

\* ------------------------------------------------- start_node and stop_node
\* The four long-running tasks start_node_service spawns. A task is known by its
\* kind and by the run_id that start_node_service drew when it spawned it; the
\* VDF solver is not handed that number and cannot read it.
TaskKinds == {"p2p", "heartbeat", "mining", "solver"}
Spawned(my_run_id) == { [kind |-> k, my_run_id |-> my_run_id] : k \in TaskKinds }
AllTasks == UNION { Spawned(i) : i \in 1..MaxRunId }

\* start_node_service: refuses without a wallet, returns at once when the node is
\* already running, and otherwise raises is_running, draws the next run_id and
\* spawns the four tasks.
StartNode ==
    /\ wallet # None
    /\ ~is_running
    /\ run_id < MaxRunId
    /\ is_running' = TRUE
    /\ run_id' = run_id + 1
    /\ tasks' = tasks \cup Spawned(run_id + 1)
    /\ UNCHANGED <<regVars, ledgerVars, miningVars, poolVars, fn_call, sideVars>>

\* stop_node: lowers is_running and advances run_id.
StopNode ==
    /\ run_id < MaxRunId
    /\ is_running' = FALSE
    /\ run_id' = run_id + 1
    /\ UNCHANGED tasks
    /\ UNCHANGED <<regVars, ledgerVars, miningVars, poolVars, fn_call, sideVars>>

\* The test at the top of a task's loop: the P2P loop, the heartbeat and the
\* mining loop leave when is_running is down or run_id is no longer theirs; the
\* solver tests is_running alone.
ShouldStop(task) ==
    IF task.kind = "solver"
    THEN ~is_running
    ELSE ~is_running \/ run_id # task.my_run_id

\* A task reaches the top of its loop, finds that it should stop, and returns.
TaskExit(task) ==
    /\ task \in tasks
    /\ ShouldStop(task)
    /\ tasks' = tasks \ {task}
    /\ UNCHANGED <<is_running, run_id>>
    /\ UNCHANGED <<regVars, ledgerVars, miningVars, poolVars, fn_call, sideVars>>

RunInit ==
    /\ RegQuiet
    /\ MiningIdle
    /\ LedgerFresh
    /\ wallet = LocalWallet
    /\ peer_count = 0

RunNext ==
    \/ StartNode
    \/ StopNode
    \/ \E task \in AllTasks : TaskExit(task)

RunSpec == RunInit /\ [][RunNext]_vars

\* Every loop body ends (its sleeps and solves are finite), so a task that should
\* stop whenever it looks does get to look.
RunFairSpec == RunSpec /\ \A task \in AllTasks : WF_vars(TaskExit(task))

\* ------------------------------------------------- mark_peer_active calls
\* The registry operations that decide whether a block author is known,
\* activated or verified, with the call of mark_peer_active kept for inspection.
MarkPeerActiveCall(p) ==
    /\ nodes' = mark_peer_active(nodes, now, p)
    /\ fn_call' = [ op      |-> "mark_peer_active",
                    peer_id |-> p,
                    before  |-> nodes,
                    after   |-> mark_peer_active(nodes, now, p) ]
    /\ UNCHANGED <<local_peer_id, now, rewards>>
    /\ UNCHANGED <<ledgerVars, miningVars, poolVars, runVars, sideVars>>

MarkInit == Init

MarkNext ==
    \/ \E p \in Peers : RegisterNode(p)
    \/ \E p \in Peers : \E proof \in ProofsFor(p) : VerifyPeer(p, proof)
    \/ \E p \in Peers : SlashNode(p)
    \/ UpdateActiveStatus
    \/ \E p \in Peers : MarkPeerActiveCall(p)

MarkSpec == MarkInit /\ [][MarkNext]_vars

\* ------------------------------------------------------ Proof of Patience
\* The local node and the solver task.
LocalNeedsProof ==
    /\ local_peer_id # None
    /\ local_peer_id \in DOMAIN nodes
    /\ ~nodes[local_peer_id].is_verified

SolverAlive == \E task \in tasks : task.kind = "solver"

\* The difficulty the solver works at: VDF_BASE_DIFFICULTY plus
\* VDF_DIFFICULTY_PER_VALIDATOR for every node of the registry.
SolverDifficulty(ns) == VDF_BASE_DIFFICULTY + Len2(ns) * VDF_DIFFICULTY_PER_VALIDATOR

\* One pass of the solver loop that gets to the solve: the node is running and
\* synced and the local node is registered and unverified; the solver solves the
\* node's challenge at its own difficulty and hands the proof to verify_peer.
SolverIterate ==
    /\ SolverAlive
    /\ is_running
    /\ is_synced
    /\ LocalNeedsProof
    /\ LET pid == local_peer_id
           challenge == get_vdf_challenge(pid)
           difficulty == SolverDifficulty(nodes)
           proof == VdfSolve(difficulty, challenge)
       IN  /\ nodes' = verify_peer(nodes, pid, proof)
           /\ fn_call' = [ op         |-> "solver",
                           peer_id    |-> pid,
                           difficulty |-> difficulty,
                           proof      |-> proof,
                           accepted   |-> verify_peer_ok(nodes, pid, proof) ]
    /\ UNCHANGED <<local_peer_id, now, rewards>>
    /\ UNCHANGED <<ledgerVars, miningVars, poolVars, runVars, sideVars>>

\* The mining task finishes initialize_network_state and marks the node synced.
SyncComplete ==
    /\ \E task \in tasks : task.kind = "mining" /\ ~ShouldStop(task)
    /\ ~is_synced
    /\ is_synced' = TRUE
    /\ UNCHANGED <<pc, current_slot, my_shard, elapsed, last_production_time,
                   mining_enabled, validator_count, produced>>
    /\ UNCHANGED <<regVars, ledgerVars, poolVars, auxVars>>

PatienceInit == RunInit

PatienceNext ==
    \/ StartNode
    \/ StopNode
    \/ \E task \in AllTasks : TaskExit(task)
    \/ \E p \in Peers : RegisterNode(p)
    \/ SetLocalPeerId(LocalWallet)
    \/ SyncComplete
    \/ SolverIterate

PatienceSpec == PatienceInit /\ [][PatienceNext]_vars

\* The solver's sleep and its solve are finite: it gets to solve again and again
\* for as long as the node needs a proof.
PatienceFairSpec == PatienceSpec /\ WF_vars(SolverIterate)

\* ------------------------------------------- the registry lock and the VDF
\* The solver task, the P2P task and the mining task around the consensus
\* Mutex.  registry_lock is the task inside a `consensus.lock()` block that
\* spans more than one step, vdf_running the tasks inside CentichainVDF::solve,
\* and lock_pc where each task stands.  A block that reads or writes the
\* registry without solving is one step, taken when the Mutex is free.
LockTasks == {"solver", "p2p", "miner"}

TaskRuns(kind) == \E task \in tasks : task.kind = kind /\ ~ShouldStop(task)

At(t, where) == lock_pc[t].at = where

Goto(t, where) == [lock_pc EXCEPT ![t].at = where]

LockRest == UNCHANGED <<local_peer_id, now, rewards, ledgerVars, miningVars, poolVars, fn_call, runVars, receipt_channel, last_round, relayVars, syncVars, held, lock_at>>

\* Solver loop, top: running, synced, and (under the lock, released at the end
\* of the block) the local node is registered and unverified.
SolverCheck ==
    /\ TaskRuns("solver")
    /\ is_synced
    /\ At("solver", "idle")
    /\ registry_lock = "free"
    /\ LocalNeedsProof
    /\ lock_pc' = Goto("solver", "solve")
    /\ UNCHANGED <<nodes, registry_lock, vdf_running>>
    /\ LockRest

\* Mining loop: the leadership check and collect_shard_transactions read the
\* registry under the lock and release it before the block is sealed.
MinerCheck ==
    /\ TaskRuns("mining")
    /\ is_synced
    /\ At("miner", "idle")
    /\ registry_lock = "free"
    /\ lock_pc' = Goto("miner", "solve")
    /\ UNCHANGED <<nodes, registry_lock, vdf_running>>
    /\ LockRest

\* The solver's spawn_blocking solve, and the mining loop's solve that seals the
\* block: CentichainVDF::solve is entered by a task at "solve"; no lock is taken.
SolveBegin(t) ==
    /\ At(t, "solve")
    /\ vdf_running' = vdf_running \cup {t}
    /\ lock_pc' = Goto(t, "solving")
    /\ UNCHANGED <<nodes, registry_lock>>
    /\ LockRest

\* The solve returns: the solver keeps its proof for the self-verification, the
\* mining loop goes on with the sealed block.
SolveEnd(t) ==
    /\ At(t, "solving")
    /\ vdf_running' = vdf_running \ {t}
    /\ lock_pc' = IF t = "solver"
                  THEN [lock_pc EXCEPT ![t] = [ at      |-> "verify",
                                                 peer_id |-> local_peer_id,
                                                 proof   |-> VdfSolve(SolverDifficulty(nodes), get_vdf_challenge(local_peer_id)) ]]
                  ELSE Goto(t, "idle")
    /\ UNCHANGED <<nodes, registry_lock>>
    /\ LockRest

\* The P2P task takes a VdfProofMessage off the gossip topic.
GossipVdfProof(peer_id, proof) ==
    /\ TaskRuns("p2p")
    /\ At("p2p", "idle")
    /\ lock_pc' = [lock_pc EXCEPT !["p2p"] = [at |-> "verify", peer_id |-> peer_id, proof |-> proof]]
    /\ UNCHANGED <<nodes, registry_lock, vdf_running>>
    /\ LockRest

\* `let mut c = consensus.lock().unwrap();` before verify_peer.
VerifyLock(t) ==
    /\ At(t, "verify")
    /\ registry_lock = "free"
    /\ registry_lock' = t
    /\ lock_pc' = Goto(t, "locked")
    /\ UNCHANGED <<nodes, vdf_running>>
    /\ LockRest

\* c.verify_peer(...) -> self.vdf.verify(challenge, proof) -> self.solve(challenge):
\* the caller's guard `c` is alive, and the solve starts.
VerifyBegin(t) ==
    /\ At(t, "locked")
    /\ registry_lock = t
    /\ vdf_running' = vdf_running \cup {t}
    /\ lock_pc' = Goto(t, "verifying")
    /\ UNCHANGED <<nodes, registry_lock>>
    /\ LockRest

\* The solve inside verify returns, verify_peer compares and marks the node, and
\* the guard is dropped at the end of the block.
VerifyEnd(t) ==
    /\ At(t, "verifying")
    /\ vdf_running' = vdf_running \ {t}
    /\ nodes' = verify_peer(nodes, lock_pc[t].peer_id, lock_pc[t].proof)
    /\ registry_lock' = "free"
    /\ lock_pc' = [lock_pc EXCEPT ![t] = [at |-> "idle", peer_id |-> None, proof |-> None]]
    /\ LockRest

\* Calls that take the Mutex for one block.
LockedCall ==
    /\ registry_lock = "free"
    /\ \/ \E p \in Peers : RegisterNode(p)
       \/ SetLocalPeerId(LocalWallet)

LockInit == RunInit

LockNext ==
    \/ StartNode
    \/ SyncComplete
    \/ LockedCall
    \/ SolverCheck
    \/ MinerCheck
    \/ \E t \in {"solver", "miner"} : SolveBegin(t)
    \/ \E t \in {"solver", "miner"} : SolveEnd(t)
    \/ \E p \in Peers : \E proof \in ProofsFor(p) : GossipVdfProof(p, proof)
    \/ \E t \in {"solver", "p2p"} : VerifyLock(t)
    \/ \E t \in {"solver", "p2p"} : VerifyBegin(t)
    \/ \E t \in {"solver", "p2p"} : VerifyEnd(t)

LockSpec == LockInit /\ [][LockNext]_vars

\* ------------------------------------------------------ save_block calls
\* Storage::save_block on blocks of one or two transfers between the system
\* account and two wallets, of a small amount or of the largest u64; the write
\* transaction commits (io_ok) or fails, and a failed one leaves no trace.
SaveAmounts == {SMALL_AMOUNT, U64_MAX_SCALED}

SaveTxs ==
    { Tx(FOREIGN_TX_BASE + k, sender, receiver, amount, 0) :
        k \in 1..1, sender \in {SYSTEM} \cup Peers, receiver \in Peers, amount \in SaveAmounts }

SaveBodies ==
    { <<tx>> : tx \in SaveTxs }
        \cup { <<t1, t2>> : t1 \in { tx \in SaveTxs : tx.sender = SYSTEM }, t2 \in SaveTxs }

SaveBlock(b, io_ok) ==
    /\ saves < MaxSaveCalls
    /\ saves' = saves + 1
    /\ blocks' = IF io_ok THEN save_block_blocks(blocks, b) ELSE blocks
    /\ state' = IF io_ok THEN save_block_state(state, b) ELSE state
    /\ fn_call' = [ op            |-> "save_block",
                    block         |-> b,
                    ok            |-> io_ok,
                    blocks_before |-> blocks,
                    state_before  |-> state,
                    blocks_after  |-> IF io_ok THEN save_block_blocks(blocks, b) ELSE blocks,
                    state_after   |-> IF io_ok THEN save_block_state(state, b) ELSE state ]
    /\ UNCHANGED <<mempool, chain_index, wallet, peer_count, next_uuid, submit_result, net_in>>
    /\ UNCHANGED <<regVars, miningVars, poolVars, runVars, sideVars>>

SaveInit == LedgerInit

SaveNext ==
    \E index \in 0..MaxIndex, body \in SaveBodies, io_ok \in BOOLEAN :
        SaveBlock(ForeignBlock(index, body, TRUE), io_ok)

SaveSpec == SaveInit /\ [][SaveNext]_vars

\* -------------------------------------------------------- mempool calls
\* Transactions the network may hand to the mempool: two ids, and for each id two
\* transactions that differ in their amount.
PoolIds == 1..MaxPoolIds
PoolTxs ==
    { Tx(id, ForeignPeer, LocalWallet, amount, 0) :
        id \in PoolIds, amount \in {SMALL_AMOUNT, 2 * SMALL_AMOUNT} }

\* p2p.rs, gossipsub message on the shard's transaction topic (and each element
\* of SyncResponse::Mempool): add_transaction, its result discarded.
GossipTransaction(tx, io_ok) ==
    /\ mempool' = add_transaction(mempool, tx)
    /\ persisted' = add_transaction_persist(mempool, persisted, tx, io_ok)
    /\ pool_call' = AddCall(tx, add_transaction_ok(mempool, tx))
    /\ UNCHANGED <<blocks, state, chain_index, wallet, peer_count, next_uuid,
                   submit_result, net_in, saves>>
    /\ UNCHANGED regVars
    /\ UNCHANGED miningVars
    /\ UNCHANGED auxVars

\* Mempool::remove_transactions; the table keeps the ids whose removal failed.
RemoveTransactions(ids, failed) ==
    /\ mempool' = remove_transactions(mempool, ids)
    /\ persisted' = remove_pending_txs(persisted, ids \ failed)
    /\ pool_call' = RemoveCall(ids)
    /\ UNCHANGED <<blocks, state, chain_index, wallet, peer_count, next_uuid,
                   submit_result, net_in, saves>>
    /\ UNCHANGED regVars
    /\ UNCHANGED miningVars
    /\ UNCHANGED auxVars

\* Mempool::load_from_db.
LoadFromDb ==
    /\ mempool' = load_from_db(mempool, persisted)
    /\ pool_call' = [op |-> "load"]
    /\ UNCHANGED persisted
    /\ UNCHANGED <<blocks, state, chain_index, wallet, peer_count, next_uuid,
                   submit_result, net_in, saves>>
    /\ UNCHANGED regVars
    /\ UNCHANGED miningVars
    /\ UNCHANGED auxVars

MempoolInit ==
    /\ RegQuiet
    /\ MiningIdle
    /\ LedgerFresh
    /\ wallet = LocalWallet
    /\ peer_count = 1

MempoolNext ==
    \/ \E tx \in PoolTxs, io_ok \in BOOLEAN : GossipTransaction(tx, io_ok)
    \/ \E ids \in (SUBSET PoolIds) \ {{}} : \E failed \in SUBSET ids :
          RemoveTransactions(ids, failed)
    \/ LoadFromDb

MempoolSpec == MempoolInit /\ [][MempoolNext]_vars

\* ------------------------------------------- production with a mempool
\* A registry of two shards: the local node, activated as the creator of genesis,
\* and the peers it has discovered, registered at time 0 and not verified.
ShardedRegistry ==
    [p \in 1..(2 * VALIDATORS_PER_SHARD) |->
        IF p = LocalWallet THEN LocalRegistry[LocalWallet] ELSE NewNodeState(p, 0)]

\* Pending transactions the network hands to the producer: one per id, stamped as
\* send_transaction stamps them with the sender's shard of epoch 0. The local
\* node produces for the other shard in the epoch of MiningStart, so its own
\* transfer (id 3) is another shard's; of the peer's transfers, 1 and 4 pay into
\* the other shard and 2 stays in the shard.
ProduceIds == 1..MaxProduceTxs
ProduceSender(id) == IF id = 3 THEN LocalWallet ELSE ForeignPeer
ProduceReceiver(id) ==
    IF id = 1 THEN LocalWallet
    ELSE IF id = 2 THEN ForeignPeer + 2
    ELSE IF id = 3 THEN ForeignPeer
    ELSE ForeignPeer + 1
ProduceTxs ==
    { Tx(id, ProduceSender(id), ProduceReceiver(id), id * SMALL_AMOUNT,
         get_assigned_shard(ShardedRegistry, ProduceSender(id), 0)) : id \in ProduceIds }

\* p2p.rs, the receipt branch of the event loop: the oldest receipt leaves the
\* channel and is published.
PublishReceipt ==
    /\ receipt_channel # <<>>
    /\ receipt_channel' = Tail(receipt_channel)
    /\ UNCHANGED <<regVars, ledgerVars, miningVars, poolVars, fn_call, runVars,
                   last_round, relayVars, lockVars, syncVars>>

ProduceInit ==
    /\ local_peer_id = LocalWallet
    /\ now = MiningStart + 2 * SLOT_DURATION
    /\ rewards = 0
    /\ mempool = EmptyTable
    /\ chain_index = 0
    /\ wallet = LocalWallet
    /\ next_uuid = 0
    /\ submit_result = "none"
    /\ net_in = NoMsg
    /\ current_slot = 0
    /\ my_shard = 0
    /\ elapsed = 0
    /\ last_production_time = MiningStart
    /\ mining_enabled = TRUE
    /\ produced = <<>>
    /\ persisted = EmptyTable
    /\ pool_call = NoCall
    /\ AuxIdle
    /\ nodes = ShardedRegistry
    /\ blocks = PutBlock(EmptyTable, GenesisBlock)
    /\ state = save_block_state(EmptyTable, GenesisBlock)
    /\ saves = 1
    /\ pc = "top"
    /\ is_synced = TRUE
    /\ validator_count = 1
    /\ peer_count = Len2(nodes) - 1

ProduceNext ==
    \/ MineTick
    \/ MineTop
    \/ MineLeadership
    \/ MineSlotTiming
    \/ \E io_ok \in BOOLEAN : ProduceRound(7, io_ok)
    \/ \E tx \in ProduceTxs : GossipTransaction(tx, TRUE)
    \/ PublishReceipt

ProduceSpec == ProduceInit /\ [][ProduceNext]_vars

\* ------------------------------------------------- the relay phase
\* The run the mining task was spawned for.
MiningRunId == 1

\* The P2P task reports the relay reservation.
RelayConnected ==
    /\ is_running
    /\ ~relay_connected
    /\ relay_connected' = TRUE
    /\ UNCHANGED <<phase, waited>>
    /\ UNCHANGED <<regVars, ledgerVars, miningVars, poolVars, fn_call, runVars,
                   receipt_channel, last_round, lockVars, syncVars>>

\* wait_for_relay, one turn of its loop: the stop test, the relay test, a sleep of
\* one second; the loop ends after RELAY_CONNECTION_TIMEOUT sleeps and the task
\* goes on to emit_relay_error.
WaitForRelay ==
    /\ phase = "relay"
    /\ IF ~is_running \/ run_id # MiningRunId
       THEN phase' = "relay_error" /\ UNCHANGED waited
       ELSE IF relay_connected
       THEN phase' = "discovery" /\ UNCHANGED waited
       ELSE /\ waited' = waited + 1
            /\ phase' = IF waited + 1 < RELAY_CONNECTION_TIMEOUT THEN "relay"
                        ELSE "relay_error"
    /\ UNCHANGED relay_connected
    /\ UNCHANGED <<regVars, ledgerVars, miningVars, poolVars, fn_call, runVars,
                   receipt_channel, last_round, lockVars, syncVars>>

\* emit_relay_error, one turn of its loop: while the node runs it emits the error
\* status and sleeps; when the node is stopped it returns and the task ends.
EmitRelayError ==
    /\ phase = "relay_error"
    /\ phase' = IF is_running /\ run_id = MiningRunId THEN "relay_error" ELSE "exited"
    /\ UNCHANGED <<relay_connected, waited>>
    /\ UNCHANGED <<regVars, ledgerVars, miningVars, poolVars, fn_call, runVars,
                   receipt_channel, last_round, lockVars, syncVars>>

\* The task enters initialize_network_state; with no peer and no local chain that
\* is the creation of genesis.
StartDiscovery ==
    /\ phase = "discovery"
    /\ phase' = "production"
    /\ pc' = "genesis"
    /\ UNCHANGED <<relay_connected, waited>>
    /\ UNCHANGED <<current_slot, my_shard, elapsed, last_production_time,
                   is_synced, mining_enabled, validator_count, produced>>
    /\ UNCHANGED <<regVars, ledgerVars, poolVars, fn_call, runVars,
                   receipt_channel, last_round, lockVars, syncVars>>

\* The steps of the task once it is past the relay phase.
RelayMining ==
    /\ phase = "production"
    /\ is_running /\ run_id = MiningRunId
    /\ MiningNext

\* A freshly started node: the mining task of run MiningRunId is at wait_for_relay.
RelayInit ==
    /\ local_peer_id = LocalWallet
    /\ nodes = FreshRegistry
    /\ now = MiningStart
    /\ rewards = 0
    /\ blocks = EmptyTable
    /\ state = EmptyTable
    /\ mempool = EmptyTable
    /\ chain_index = 0
    /\ wallet = LocalWallet
    /\ peer_count = 0
    /\ next_uuid = 0
    /\ submit_result = "none"
    /\ net_in = NoMsg
    /\ saves = 0
    /\ pc = "stopped"
    /\ current_slot = 0
    /\ my_shard = 0
    /\ elapsed = 0
    /\ last_production_time = MiningStart
    /\ is_synced = FALSE
    /\ mining_enabled = TRUE
    /\ validator_count = 0
    /\ produced = <<>>
    /\ persisted = EmptyTable
    /\ pool_call = NoCall
    /\ fn_call = NoCall
    /\ is_running = TRUE
    /\ run_id = MiningRunId
    /\ tasks = {}
    /\ receipt_channel = <<>>
    /\ last_round = NoCall
    /\ relay_connected = FALSE
    /\ phase = "relay"
    /\ waited = 0
    /\ registry_lock = "free"
    /\ vdf_running = {}
    /\ lock_pc = [t \in {"solver", "p2p", "miner"} |-> [at |-> "idle", peer_id |-> None, proof |-> None]]
    /\ held = [l \in {"wallet", "consensus", "mempool", "tx_sender", "receipt_sender"} |-> "free"]
    /\ lock_at = [t \in {"submit_transaction", "get_consensus_status", "get_wallet_info", "miner", "solver", "p2p"} |-> 1]
    /\ sync_out = [kind |-> "none"]
    /\ remote_blocks = [x \in {} |-> 0]

RelayNext ==
    \/ RelayConnected
    \/ WaitForRelay
    \/ EmitRelayError
    \/ StartDiscovery
    \/ RelayMining
    \/ StopNode

RelaySpec == RelayInit /\ [][RelayNext]_vars

\* The scheduler runs the mining task whenever it has a step to take.
RelayFairSpec ==
    /\ RelaySpec
    /\ WF_vars(WaitForRelay)
    /\ WF_vars(EmitRelayError)
    /\ WF_vars(StartDiscovery)

\* ------------------------------------- production loop beside the P2P task
\* The production loop and the P2P event loop run as two tasks on the same
\* storage and the same chain_index.
\* Blocks gossiped by the remote producer while the local loop runs.
GossipDuringMining ==
    { [kind |-> "gossip_block", block |-> ForeignBlock(i, <<ForeignCoinbase>>, TRUE)] :
        i \in 0..MaxIndex }

MiningIngestNext ==
    \/ MiningNext
    \/ \E m \in GossipDuringMining : Deliver(m)
    \/ HandleGossipBlock

MiningIngestSpec == MiningInit /\ [][MiningIngestNext]_vars

\* ================================================================== claims
Registered(p) == p \in DOMAIN nodes
Eligible(p) == is_eligible_for_leadership(nodes, now, p)
Activated(p) == Registered(p) /\ nodes[p].activated_at # None
UnderQuarantine(p) == current_uptime(nodes[p], now) < get_quarantine_duration(nodes)

\* ---------------------------------------------------------------------- C1
\* C1 (as claimed): whenever the production loop produces a block B, the producing
\* node is the leader that get_shard_leader returns for B.shard_id and the slot
\* B.timestamp / SLOT_DURATION under the node's registry, however the clock moved
\* between the leadership check and the stamping of B.timestamp.
C1_ProducerIsLeaderOfStampedSlot ==
    [][ produced' # produced =>
          LET B == produced'[Len(produced')]
          IN  ShardLeaders(nodes, B.timestamp, B.shard_id,
                           B.timestamp \div SLOT_DURATION) = {local_peer_id} ]_vars

\* ---------------------------------------------------------------------- C2
ShardIds == 0..1
SlotWindow == (now \div SLOT_DURATION)..((now \div SLOT_DURATION) + MaxSlotsAhead)

\* C2: leader election is deterministic.  For every reachable registry, every
\* shard and every slot, get_shard_leader returns one and the same value whatever
\* order the registry's map is iterated in (two registries with identical
\* contents, or two calls on an unchanged registry).
C2_LeaderDeterministic ==
    \A shard_id \in ShardIds, slot \in SlotWindow :
        Cardinality(ShardLeaders(nodes, now, shard_id, slot)) = 1

\* Two eligible validators share shard 0 and each leads some slot of the window.
C2_Witness ==
    /\ Len2(nodes) >= 2
    /\ \A p \in DOMAIN nodes : Eligible(p)
    /\ \E s1, s2 \in SlotWindow :
          /\ GetShardLeader(nodes, now, 0, s1) # None
          /\ GetShardLeader(nodes, now, 0, s2) # None
          /\ GetShardLeader(nodes, now, 0, s1) # GetShardLeader(nodes, now, 0, s2)

\* ---------------------------------------------------------------------- C3
\* C3 (as claimed): every block that the ingest path (gossip, single-block sync
\* response, batch sync response) has appended to storage satisfies is_vdf_valid.
C3_StoredBlocksVdfValid ==
    \A i \in DOMAIN blocks : is_vdf_valid(blocks[i])

\* ---------------------------------------------------------------------- C4
\* C4 (as claimed): first writer wins per index.  Once a block is stored at index
\* i, no step replaces it, and the ingest of a block with index i leaves the
\* balances as they were.
C4_FirstWriterWins ==
    [][ \A i \in DOMAIN blocks :
          /\ i \in DOMAIN blocks'
          /\ blocks'[i] = blocks[i]
          /\ (net_in.kind \in {"gossip_block", "sync_block"} /\ net_in.block.index = i)
                => state' = state ]_vars

\* ---------------------------------------------------------------------- C5
PendingSpend(pool, address) == SumSpend(pool, DOMAIN pool, address)
Rejections == {"err_no_peers", "err_invalid_receiver", "err_no_wallet",
               "err_own_address", "err_insufficient_funds", "err_duplicate"}

\* C5: transaction admission.  A submit adds a transaction to the mempool only if
\* amount + calculate_fee(amount) <= balance(sender) - pending_spend(sender); after
\* any sequence of submits with no block appended, every sender's total pending
\* spend is at most its stored balance; and a rejected submit (insufficient funds,
\* invalid receiver, receiver = sender, no wallet, zero peers) leaves the mempool
\* unchanged.
C5_Admission ==
    [][ /\ mempool' # mempool =>
              \E id \in (DOMAIN mempool') \ (DOMAIN mempool) :
                 LET tx == mempool'[id]
                 IN  /\ DOMAIN mempool' = (DOMAIN mempool) \cup {id}
                     /\ \A j \in DOMAIN mempool : mempool'[j] = mempool[j]
                     /\ tx.sender = wallet
                     /\ IsPeerId(tx.receiver)
                     /\ tx.receiver # tx.sender
                     /\ peer_count > 0
                     /\ tx.amount + calculate_fee(tx.amount)
                           <= Balance(state, tx.sender) - PendingSpend(mempool, tx.sender)
        /\ \A a \in Peers : PendingSpend(mempool', a) <= Balance(state', a)
        /\ submit_result' \in Rejections => mempool' = mempool
        /\ (peer_count = 0 \/ wallet = None) => submit_result' \in Rejections ]_vars

\* Two transactions are pending and a third submit was refused for lack of funds.
C5_Witness ==
    /\ Cardinality(DOMAIN mempool) >= 2
    /\ submit_result = "err_insufficient_funds"
    /\ PendingSpend(mempool, wallet) > 0

\* ---------------------------------------------------------------------- C6
OnlyNonSystem(b) ==
    /\ b.transactions # <<>>
    /\ \A k \in 1..Len(b.transactions) : b.transactions[k].sender # SYSTEM

RECURSIVE NoSaturation(_, _)
NoSaturation(st, txs) ==
    \/ txs = <<>>
    \/ /\ Balance(st, Head(txs).sender) >= Head(txs).amount + calculate_fee(Head(txs).amount)
       /\ NoSaturation(ApplyTx(st, Head(txs)), Tail(txs))

RECURSIVE FeesOf(_)
FeesOf(txs) ==
    IF txs = <<>> THEN 0 ELSE calculate_fee(Head(txs).amount) + FeesOf(Tail(txs))

\* C6 (as claimed): saving a block that holds only non-SYSTEM transactions, none
\* of which saturates, leaves the sum of all balances unchanged.
C6_SumConserved ==
    \A b \in ForeignBlocks :
        (OnlyNonSystem(b) /\ NoSaturation(state, b.transactions))
            => SumBalances(save_block_state(state, b)) = SumBalances(state)

\* C6 (amended): saving a block that holds only non-SYSTEM transactions, none of
\* which saturates, lowers the sum of all balances by the sum of the fees of its
\* transactions; the amounts themselves are conserved.
C6_SumDropsByFees ==
    \A b \in ForeignBlocks :
        (OnlyNonSystem(b) /\ NoSaturation(state, b.transactions))
            => SumBalances(save_block_state(state, b))
                   = SumBalances(state) - FeesOf(b.transactions)

\* A block holding only the foreign transfer has been saved on top of a balance
\* that covered amount and fee.
C6_Witness ==
    /\ \E i \in DOMAIN blocks : blocks[i].transactions = <<ForeignTransfer>>
    /\ Balance(state, LocalWallet) = FOREIGN_AMOUNT
    /\ Balance(state, ForeignPeer)
          = FOREIGN_REWARD - FOREIGN_AMOUNT - calculate_fee(FOREIGN_AMOUNT)

\* ---------------------------------------------------------------------- C7
\* C7 (as claimed): an activated node is eligible in every later state in which
\* its trust_score is at least 0.01, whatever registry operation follows.
C7_EligibleWhileTrusted ==
    [][ \A p \in DOMAIN nodes :
          Activated(p) =>
             ( (p \in DOMAIN nodes' /\ nodes'[p].trust_score >= TRUST_FLOOR)
                  => is_eligible_for_leadership(nodes', now', p) ) ]_vars

\* The step is a slash of p whose halving takes the score below the floor.
DemotingSlash(p) ==
    /\ nodes'[p].missed_slots = nodes[p].missed_slots + 1
    /\ TimesHalf(nodes[p].trust_score) < TRUST_FLOOR

\* C7 (amended): an activated node stays activated and eligible through every
\* registry operation except a slash_node whose halving takes its trust_score
\* below 0.01; that slash resets the score to 0.01 and revokes the activation.
C7_EligibleUntilDemotingSlash ==
    [][ \A p \in DOMAIN nodes :
          Activated(p) =>
             /\ p \in DOMAIN nodes'
             /\ IF DemotingSlash(p)
                THEN /\ nodes'[p].activated_at = None
                     /\ nodes'[p].trust_score = TRUST_FLOOR
                ELSE /\ nodes'[p].activated_at # None
                     /\ is_eligible_for_leadership(nodes', now', p) ]_vars

\* An activated node has been slashed and is still activated, still under the
\* quarantine it would otherwise have to serve, next to a node that is not eligible.
C7_Witness ==
    \E p, q \in DOMAIN nodes :
        /\ Activated(p)
        /\ nodes[p].missed_slots >= 1
        /\ UnderQuarantine(p)
        /\ Eligible(p)
        /\ ~Eligible(q)

\* ---------------------------------------------------------------------- C8
\* C8: grandfather clause.  A step that registers more nodes never makes an
\* activated node with trust_score >= 0.01 ineligible, and in a registry of two
\* or more nodes a node that is not activated is eligible only if it is verified
\* and its uptime has reached the quarantine.
C8_Grandfather ==
    [][ /\ \A p \in DOMAIN nodes :
              ( /\ Activated(p)
                /\ nodes[p].trust_score >= TRUST_FLOOR
                /\ Len2(nodes') > Len2(nodes) )
                 => is_eligible_for_leadership(nodes', now', p)
        /\ \A q \in DOMAIN nodes' :
              ( /\ nodes'[q].activated_at = None
                /\ Len2(nodes') >= 2
                /\ is_eligible_for_leadership(nodes', now', q) )
                 => /\ nodes'[q].is_verified
                    /\ current_uptime(nodes'[q], now')
                          >= get_quarantine_duration(nodes') ]_vars

\* An activated node is eligible below the quarantine that grew when a later node
\* registered, and that later, never-activated node is not eligible.
C8_Witness ==
    \E p, q \in DOMAIN nodes :
        /\ Activated(p)
        /\ Eligible(p)
        /\ UnderQuarantine(p)
        /\ nodes[q].activated_at = None
        /\ nodes[q].missed_slots = 0
        /\ nodes[q].join_time >= nodes[p].activated_at
        /\ ~Eligible(q)

\* ---------------------------------------------------------------------- C9
\* C9: in every reachable registry every node's trust_score lies in [0.01, 1.0].
C9_TrustInRange ==
    \A p \in DOMAIN nodes :
        TRUST_FLOOR <= nodes[p].trust_score /\ nodes[p].trust_score <= TRUST_MAX

\* One node was slashed down to the floor, another was rewarded at the ceiling.
C9_Witness ==
    /\ rewards > 0
    /\ \E p, q \in DOMAIN nodes :
          /\ nodes[p].missed_slots > 0
          /\ nodes[p].trust_score = TRUST_FLOOR
          /\ nodes[q].trust_score = TRUST_MAX

\* --------------------------------------------------------------------- C10
UnregisteredProbe == MaxPeers + 1
TrustProbes == {0, TRUST_FLOOR - 1, TRUST_FLOOR, TRUST_MAX}

\* The three ways of being eligible, as the claim lists them.
EligibleByRule(ns, t, p) ==
    /\ p \in DOMAIN ns
    /\ \/ (ns[p].activated_at # None /\ ns[p].trust_score >= TRUST_FLOOR)
       \/ Cardinality(DOMAIN ns) = 1
       \/ /\ ns[p].is_verified
          /\ current_uptime(ns[p], t) >= get_quarantine_duration(ns)
          /\ ns[p].trust_score >= TRUST_FLOOR

\* C10: is_eligible_for_leadership(p) holds iff p is registered and (1) it is
\* activated with trust_score >= 0.01, or (2) the registry has exactly one node,
\* or (3) it is verified, its uptime has reached the quarantine and its
\* trust_score >= 0.01.  Checked on every reachable registry, also with any
\* trust score put in p's record; an unregistered peer is never eligible.
C10_EligibilityRule ==
    /\ \A p \in Peers \cup {UnregisteredProbe} :
          is_eligible_for_leadership(nodes, now, p) <=> EligibleByRule(nodes, now, p)
    /\ \A p \in DOMAIN nodes : \A trust \in TrustProbes :
          LET ns == [nodes EXCEPT ![p].trust_score = trust]
          IN  is_eligible_for_leadership(ns, now, p) <=> EligibleByRule(ns, now, p)
    /\ ~is_eligible_for_leadership(nodes, now, UnregisteredProbe)

\* A verified, never-activated node in a registry of two is under quarantine and
\* not eligible.
C10_Witness ==
    \E p \in DOMAIN nodes :
        /\ Len2(nodes) >= 2
        /\ nodes[p].is_verified
        /\ nodes[p].activated_at = None
        /\ nodes[p].missed_slots = 0
        /\ UnderQuarantine(p)
        /\ ~Eligible(p)



\* --------------------------------------------------------------------- C11
\* C11: the mempool never holds two pending transactions with the same id.  Every
\* pending transaction is held under its own id, and an add_transaction of an id
\* that is already pending returns an error and leaves the in-memory pool and the
\* persisted table as they were, after any sequence of add_transaction,
\* remove_transactions and load_from_db.
C11_NoDuplicateIds ==
    [][ /\ \A i \in DOMAIN mempool' : mempool'[i].id = i
        /\ ( /\ pool_call' # pool_call
             /\ pool_call'.op = "add"
             /\ pool_call'.tx.id \in DOMAIN mempool )
              => /\ pool_call'.result = "err"
                 /\ mempool' = mempool
                 /\ persisted' = persisted
        /\ ( /\ pool_call' # pool_call
             /\ pool_call'.op = "add"
             /\ pool_call'.result = "err" )
              => /\ pool_call'.tx.id \in DOMAIN mempool
                 /\ mempool' = mempool
                 /\ persisted' = persisted ]_vars

\* A transaction was refused because another one with its id is pending, and that
\* other one is still the pending and the persisted one.
C11_Witness ==
    /\ pool_call.op = "add"
    /\ pool_call.result = "err"
    /\ pool_call.tx.id \in DOMAIN mempool
    /\ pool_call.tx.id \in DOMAIN persisted
    /\ mempool[pool_call.tx.id] # pool_call.tx
    /\ persisted[pool_call.tx.id] = mempool[pool_call.tx.id]



\* --------------------------------------------------------------------- C12
\* C12 (as claimed): the indices of the blocks one node sends on its outbound
\* block channel are strictly increasing, however its production loop interleaves
\* with the ingest of foreign blocks by the P2P task.
C12_PublishedIndicesIncrease ==
    \A k \in 1..(Len(produced) - 1) : produced[k].index < produced[k + 1].index


\* --------------------------------------------------------------------- C13
\* C13: every block saved by the production loop or by genesis creation carries a
\* hash equal to calculate_hash over the header with its final proof, a proof
\* equal to the VDF solution of the header hash taken with an empty proof, and
\* so passes is_vdf_valid.
BlockInvariants(b) ==
    /\ b.hash = calculate_hash(b)
    /\ b.vdf_proof = VdfSolve(b.vdf_difficulty,
                              calculate_hash([b EXCEPT !.vdf_proof = EmptyProof]))
    /\ is_vdf_valid(b)

C13_SavedBlocksSealed ==
    /\ \A i \in DOMAIN blocks : BlockInvariants(blocks[i])
    /\ \A k \in 1..Len(produced) : BlockInvariants(produced[k])

C13_Witness ==
    /\ Len(produced) >= 1
    /\ has_block(blocks, 0)
    /\ blocks[0].timestamp >= MiningStart
    /\ has_block(blocks, 1)
    /\ blocks[1].vdf_proof # EmptyProof


\* --------------------------------------------------------------------- C14
\* The header fields of a Block, and a block with one of them changed by d.
HeaderFields ==
    { "index", "timestamp", "author", "previous_hash", "merkle_root", "state_root",
      "nonce", "vdf_difficulty", "vdf_proof", "shard_id", "version", "size",
      "total_fees", "block_reward", "total_reward", "start_time_weight" }

FieldDeltas == {1, 2}

AlterField(b, f, d) ==
    CASE f = "index"             -> [b EXCEPT !.index = @ + d]
      [] f = "timestamp"         -> [b EXCEPT !.timestamp = @ + d]
      [] f = "author"            -> [b EXCEPT !.author = @ + d]
      [] f = "previous_hash"     -> [b EXCEPT !.previous_hash = @ + d]
      [] f = "merkle_root"       -> [b EXCEPT !.merkle_root = @ + d]
      [] f = "state_root"        -> [b EXCEPT !.state_root = @ + d]
      [] f = "nonce"             -> [b EXCEPT !.nonce = @ + d]
      [] f = "vdf_difficulty"    -> [b EXCEPT !.vdf_difficulty = @ + d]
      [] f = "vdf_proof"         -> [b EXCEPT !.vdf_proof = @ + d]
      [] f = "shard_id"          -> [b EXCEPT !.shard_id = @ + d]
      [] f = "version"           -> [b EXCEPT !.version = @ + d]
      [] f = "size"              -> [b EXCEPT !.size = @ + d]
      [] f = "total_fees"        -> [b EXCEPT !.total_fees = @ + d]
      [] f = "block_reward"      -> [b EXCEPT !.block_reward = @ + d]
      [] f = "total_reward"      -> [b EXCEPT !.total_reward = @ + d]
      [] f = "start_time_weight" -> [b EXCEPT !.start_time_weight = @ + d]

\* The fields whose change leaves the recomputed hash of b equal to b.hash.
UncommittedFields(b) ==
    { f \in HeaderFields :
        \E d \in FieldDeltas : calculate_hash(AlterField(b, f, d)) = b.hash }

\* C14 (as claimed): for a published block, whose hash equals calculate_hash(),
\* changing the value of any header field makes the recomputed hash differ from
\* the stored hash.
C14_HashCommitsToHeader ==
    \A k \in 1..Len(produced) :
        produced[k].hash = calculate_hash(produced[k])
            => UncommittedFields(produced[k]) = {}

\* What the code does instead: exactly shard_id, size and start_time_weight can be
\* changed under an unchanged hash.
C14_UncommittedAreThree ==
    \A k \in 1..Len(produced) :
        UncommittedFields(produced[k]) = {"shard_id", "size", "start_time_weight"}


C15_WitnessAccepted ==
    /\ fn_call.op = "verify"
    /\ fn_call.difficulty = CONSENSUS_VDF_DIFFICULTY
    /\ fn_call.solved.difficulty = CONSENSUS_VDF_DIFFICULTY
    /\ fn_call.challenge = fn_call.solved.challenge
    /\ fn_call.result


\* --------------------------------------------------------------------- C16
\* The reward the law prescribes after k halvings.
HalvedReward(k) == IF k >= 64 THEN 0 ELSE IF k > 30 THEN 0 ELSE INITIAL_REWARD \div (2 ^ k)

\* C16: reward law. Index 0 earns the genesis supply; an index i >= 1 earns
\* INITIAL_REWARD >> (i / HALVING_INTERVAL) while that quotient is below 64 and 0
\* from there on, so index k * HALVING_INTERVAL earns INITIAL_REWARD >> k for
\* 1 <= k < 64, and of two indices >= 1 the larger never earns more.
C16_RewardLaw ==
    fn_call.op = "reward"
        => /\ fn_call.k = 0 /\ fn_call.r = 0 => fn_call.reward = GENESIS_SUPPLY_SCALED
           /\ fn_call.k > 0 \/ fn_call.r > 0 => fn_call.reward = HalvedReward(fn_call.k)
           /\ fn_call.k >= 1 /\ fn_call.k < 64 /\ fn_call.r = 0
                 => fn_call.reward = ShiftRight(INITIAL_REWARD, fn_call.k)
           /\ LET p == fn_call.prev
              IN  /\ p.k > 0 \/ p.r > 0
                  /\ p.k < fn_call.k \/ (p.k = fn_call.k /\ p.r <= fn_call.r)
                  => fn_call.reward <= p.reward

C16_Witness ==
    /\ fn_call.op = "reward"
    /\ fn_call.k = 64
    /\ fn_call.r = 0
    /\ fn_call.reward = 0
    /\ fn_call.prev.k = 1
    /\ fn_call.prev.r = 0
    /\ fn_call.prev.reward = 63419


\* --------------------------------------------------------------------- C17
\* The registry slash_missed_slots works on when it reaches each slot of a call c,
\* and the leader it finds there.
RegistryAtSlot(c) ==
    LET R[s \in c.start_slot..(c.end_slot + 1)] ==
            IF s = c.start_slot THEN c.before
            ELSE LET l == GetShardLeader(R[s - 1], c.t, c.shard_id, s - 1)
                 IN  IF l = None THEN R[s - 1] ELSE slash_node(R[s - 1], l)
    IN  R

LeaderAtSlot(c, s) == GetShardLeader(RegistryAtSlot(c)[s], c.t, c.shard_id, s)

\* What one slash does to the record of l between two registries, all else equal.
SlashedOnce(r0, r1, l) ==
    /\ DOMAIN r1 = DOMAIN r0
    /\ \A p \in DOMAIN r0 \ {l} : r1[p] = r0[p]
    /\ r1[l].missed_slots = r0[l].missed_slots + 1
    /\ r1[l].trust_score = Max(r0[l].trust_score \div 2, TRUST_FLOOR)
    /\ IF r0[l].trust_score \div 2 < TRUST_FLOOR
       THEN ~r1[l].is_active /\ r1[l].activated_at = None
       ELSE /\ r1[l].is_active = r0[l].is_active
            /\ r1[l].activated_at = r0[l].activated_at

\* C17: slash_missed_slots visits the slots of [start, end] in increasing order,
\* takes the expected leader of each under the registry as the earlier slashes of
\* the call left it, slashes it once (missed_slots + 1, trust halved with floor
\* 0.01, demoted when the halved trust is below 0.01), and returns the slashed
\* peers in slot order; with start > end it returns the empty list and leaves the
\* registry unchanged.
C17_SlashMissedSlots ==
    fn_call.op = "slash_missed_slots"
        => LET c == fn_call
               n == c.end_slot - c.start_slot + 1
           IN  IF c.start_slot > c.end_slot
               THEN c.slashed_nodes = <<>> /\ c.after = c.before
               ELSE /\ c.after = RegistryAtSlot(c)[c.end_slot + 1]
                    /\ c.slashed_nodes =
                          SelectSeq([i \in 1..n |-> LeaderAtSlot(c, c.start_slot + i - 1)],
                                    LAMBDA l : l # None)
                    /\ \A s \in c.start_slot..c.end_slot :
                          LeaderAtSlot(c, s) # None
                             => SlashedOnce(RegistryAtSlot(c)[s], RegistryAtSlot(c)[s + 1],
                                            LeaderAtSlot(c, s))

\* A call during which a slash demotes a validator, so that a later slot of the
\* same call has another leader than it had before the call.
C17_Witness ==
    /\ fn_call.op = "slash_missed_slots"
    /\ fn_call.start_slot < fn_call.end_slot
    /\ Len(fn_call.slashed_nodes) >= 2
    /\ \E s \in fn_call.start_slot..fn_call.end_slot :
          /\ LeaderAtSlot(fn_call, s) # None
          /\ LeaderAtSlot(fn_call, s)
                # GetShardLeader(fn_call.before, fn_call.t, fn_call.shard_id, s)


\* --------------------------------------------------------------------- C18
\* A task of an earlier generation: run_id has moved on since it was spawned.
Stale(task) == task \in tasks /\ task.my_run_id < run_id

\* C18 (as claimed): once stop_node has run (is_running lowered, run_id advanced),
\* every task spawned by an earlier start_node eventually terminates, also when
\* start_node runs again before the task's next check, so that no task of a stale
\* generation keeps running beside the new one.
C18_StaleTasksTerminate ==
    \A task \in AllTasks : Stale(task) ~> (task \notin tasks)

\* What holds instead: the tasks that compare run_id do terminate.
C18_RunIdTasksTerminate ==
    \A task \in AllTasks : task.kind # "solver" => (Stale(task) ~> (task \notin tasks))


\* --------------------------------------------------------------------- C19
\* The last call was mark_peer_active, on a peer that was unknown, known but not
\* activated, or already activated.
MarkedUnknown == fn_call.op = "mark_peer_active" /\ fn_call.peer_id \notin DOMAIN fn_call.before

MarkedActivated ==
    /\ fn_call.op = "mark_peer_active"
    /\ fn_call.peer_id \in DOMAIN fn_call.before
    /\ fn_call.before[fn_call.peer_id].activated_at # None

OthersUntouched ==
    \A q \in DOMAIN fn_call.before \ {fn_call.peer_id} :
        q \in DOMAIN fn_call.after /\ fn_call.after[q] = fn_call.before[q]

\* C19 (as claimed): after mark_peer_active(p) the peer p is registered with
\* is_active = true, is_verified = true and activated_at set; an unknown p is
\* first registered; when p was already activated the call leaves p's record and
\* every other node unchanged.
C19_MarkPeerActive ==
    fn_call.op = "mark_peer_active"
        => /\ fn_call.peer_id \in DOMAIN fn_call.after
           /\ fn_call.after[fn_call.peer_id].is_active
           /\ fn_call.after[fn_call.peer_id].is_verified
           /\ fn_call.after[fn_call.peer_id].activated_at # None
           /\ MarkedActivated => fn_call.after = fn_call.before

\* C19 (amended): after mark_peer_active(p) the peer p is registered with
\* is_active = true and activated_at set, and no other node has changed; p has
\* is_verified = true when it was unknown or not yet activated before the call;
\* when p was already activated the call changes nothing, so a node that the solo
\* rule activated without verification stays unverified.
C19_MarkPeerActiveAmended ==
    fn_call.op = "mark_peer_active"
        => /\ fn_call.peer_id \in DOMAIN fn_call.after
           /\ fn_call.after[fn_call.peer_id].is_active
           /\ fn_call.after[fn_call.peer_id].activated_at # None
           /\ OthersUntouched
           /\ ~MarkedActivated => fn_call.after[fn_call.peer_id].is_verified
           /\ MarkedActivated => fn_call.after = fn_call.before

\* mark_peer_active called on a peer that the solo rule had activated without
\* verification, beside another node.
C19_Witness ==
    /\ MarkedActivated
    /\ ~fn_call.before[fn_call.peer_id].is_verified
    /\ DOMAIN fn_call.before # {fn_call.peer_id}
    /\ fn_call.after = fn_call.before


\* --------------------------------------------------------------------- C20
\* C20 (as claimed): when the local node is registered, unverified and synced
\* and the solver runs, the solver's proof (difficulty VDF_BASE_DIFFICULTY +
\* VDF_DIFFICULTY_PER_VALIDATOR * validator_count) is accepted by verify_peer, so
\* that the node eventually has is_verified = true, unless the node is stopped.
C20_PatienceCompletes ==
    (is_running /\ is_synced /\ SolverAlive /\ LocalNeedsProof)
        ~> (~is_running \/ (local_peer_id \in DOMAIN nodes /\ nodes[local_peer_id].is_verified))

\* The same as a statement about one pass of the solver: its proof is accepted.
C20_SolverProofAccepted ==
    fn_call.op = "solver" => fn_call.accepted

\* The half that holds: the solver does work at the stated difficulty, and no
\* step sets is_verified of a registered node back to false.
C20_VerifiedIsStable ==
    [][ \A p \in DOMAIN nodes :
           nodes[p].is_verified => p \in DOMAIN nodes' /\ nodes'[p].is_verified ]_vars

C20_SolverDifficulty ==
    fn_call.op = "solver"
        => fn_call.difficulty >= VDF_BASE_DIFFICULTY + VDF_DIFFICULTY_PER_VALIDATOR


\* --------------------------------------------------------------------- C21
\* The balance of addr in table st, absent meaning 0.
C21_Bal(st, addr) == IF addr \in DOMAIN st THEN st[addr] ELSE 0

\* The balances after the first k transactions of the saved block, computed
\* transaction by transaction; credit(old, amount) is the rule for the receiver.
C21_After(c, credit(_, _)) ==
    LET txs == c.block.transactions
        B[k \in 0..Len(txs)] ==
            IF k = 0 THEN [a \in Peers |-> C21_Bal(c.state_before, a)]
            ELSE LET tx == txs[k]
                     due == tx.amount + calculate_fee(tx.amount)
                     debited == [a \in Peers |->
                                   IF tx.sender # SYSTEM /\ a = tx.sender
                                   THEN (IF B[k - 1][a] >= due THEN B[k - 1][a] - due ELSE 0)
                                   ELSE B[k - 1][a]]
                 IN  [a \in Peers |->
                        IF a = tx.receiver THEN credit(debited[a], tx.amount) ELSE debited[a]]
    IN  B[Len(txs)]

C21_Named(c) ==
    { c.block.transactions[k].receiver : k \in 1..Len(c.block.transactions) }
        \cup ({ c.block.transactions[k].sender : k \in 1..Len(c.block.transactions) } \ {SYSTEM})

C21_Law(c, credit(_, _)) ==
    IF c.ok
    THEN /\ c.block.index \in DOMAIN c.blocks_after
         /\ c.blocks_after[c.block.index] = c.block
         /\ \A a \in C21_Named(c) : C21_Bal(c.state_after, a) = C21_After(c, credit)[a]
         /\ \A a \in (DOMAIN c.state_after \cup DOMAIN c.state_before) \ C21_Named(c) :
               C21_Bal(c.state_after, a) = C21_Bal(c.state_before, a)
    ELSE c.blocks_after = c.blocks_before /\ c.state_after = c.state_before

\* C21 (as claimed): save_block applies, for each transaction in order, a debit
\* of amount + fee (saturating at 0) to a non-SYSTEM sender and a credit of amount
\* to the receiver; addresses the block does not name keep their balance; a
\* failed write shows neither the block nor any balance change.
C21_SaveBlockLaw ==
    fn_call.op = "save_block" => C21_Law(fn_call, LAMBDA old, amount : old + amount)

\* C21 (amended): the same, with the credit saturating at u64::MAX.
C21_SaveBlockLawSaturating ==
    fn_call.op = "save_block"
        => C21_Law(fn_call, LAMBDA old, amount : IF old + amount > U64_MAX_SCALED
                                                 THEN U64_MAX_SCALED ELSE old + amount)

\* A committed two-transaction block whose second transfer is paid by the first
\* one's receiver, after an earlier write had failed.
C21_Witness ==
    /\ fn_call.op = "save_block"
    /\ fn_call.ok
    /\ Len(fn_call.block.transactions) = 2
    /\ fn_call.block.transactions[1].sender = SYSTEM
    /\ fn_call.block.transactions[2].sender = fn_call.block.transactions[1].receiver
    /\ fn_call.block.transactions[2].receiver # fn_call.block.transactions[2].sender
    /\ fn_call.state_after # fn_call.state_before
    /\ saves >= 2


\* --------------------------------------------------------------------- C22
\* C22 (as claimed): in every block with index > 0 that the production loop
\* produced, the first transaction is a coinbase from SYSTEM to the author whose
\* amount is block_reward + total_fees, and total_fees is the sum of
\* calculate_fee(amount) over exactly the other transactions of that block.
C22_CoinbasePaysIncludedFees ==
    \A k \in 1..Len(produced) :
        LET b == produced[k]
        IN  b.index > 0 =>
                /\ b.transactions # <<>>
                /\ b.transactions[1].sender = SYSTEM
                /\ b.transactions[1].receiver = b.author
                /\ b.transactions[1].amount = b.block_reward + b.total_fees
                /\ b.total_fees = FeesOf(Tail(b.transactions))

\* The part of C22 that the code keeps: the coinbase comes first, is paid by
\* SYSTEM to the author, and amounts to block_reward + total_fees.
C22_CoinbaseShape ==
    \A k \in 1..Len(produced) :
        LET b == produced[k]
        IN  b.index > 0 =>
                /\ b.transactions # <<>>
                /\ b.transactions[1].sender = SYSTEM
                /\ b.transactions[1].receiver = b.author
                /\ b.transactions[1].amount = b.block_reward + b.total_fees


\* --------------------------------------------------------------------- C23
\* A step of the production loop that saved and published a block.
RoundSaved == pc = "produce" /\ Len(produced') = Len(produced) + 1

\* The ids of the transactions of block b other than its coinbase.
IncludedIds(b) == { b.transactions[k].id : k \in 2..Len(b.transactions) }

\* C23 (as claimed): after a production round the mempool is the mempool before
\* the round minus the ids of the transactions included in the produced block; a
\* pending transaction that was not included is still pending.
C23_MempoolMinusIncluded ==
    [][RoundSaved =>
          mempool' = remove_transactions(mempool, IncludedIds(produced'[Len(produced')]))]_vars

\* What the round does: every transaction of its snapshot leaves the mempool and
\* the persisted table, included or not.
C23_SnapshotLeavesMempool ==
    [][RoundSaved => /\ mempool' = EmptyTable
                     /\ persisted' = remove_pending_txs(persisted, DOMAIN mempool)]_vars


\* --------------------------------------------------------------------- C24
\* C24: every transaction after the coinbase of a produced block carries the shard
\* the producer worked for in that round, and the block holds at most
\* MAX_TXS_PER_BLOCK transactions, the coinbase included; a producer of another
\* shard never includes the transaction.
C24_ShardFilterAndCap ==
    /\ \A k \in 1..Len(produced) :
          LET b == produced[k]
          IN  /\ Len(b.transactions) <= MAX_TXS_PER_BLOCK_SCALED
              /\ \A j \in 2..Len(b.transactions) : b.transactions[j].shard_id = b.shard_id
    /\ last_round.op = "produce" =>
          /\ last_round.block.shard_id = last_round.my_shard
          /\ \A id \in DOMAIN last_round.pending_txs :
                last_round.pending_txs[id].shard_id # last_round.my_shard
                    => id \notin IncludedIds(last_round.block)

\* A saved round whose block is full, with a transaction of the producer's shard
\* cut off by the cap and a transaction of another shard left out.
C24_Witness ==
    /\ last_round.op = "produce"
    /\ last_round.saved
    /\ Len(last_round.block.transactions) = MAX_TXS_PER_BLOCK_SCALED
    /\ \E id \in DOMAIN last_round.pending_txs :
          /\ last_round.pending_txs[id].shard_id = last_round.my_shard
          /\ id \notin IncludedIds(last_round.block)
    /\ \E id \in DOMAIN last_round.pending_txs :
          last_round.pending_txs[id].shard_id # last_round.my_shard


\* --------------------------------------------------------------------- C25
\* One Pending receipt for each of the transactions txs whose receiver is assigned
\* (as collect_shard_transactions looks it up) to a shard other than my_shard_id.
RECURSIVE ExpectedReceipts(_, _, _)
ExpectedReceipts(ns, txs, my_shard_id) ==
    IF txs = <<>> THEN <<>>
    ELSE LET tx == Head(txs)
             target_shard == get_assigned_shard(ns, tx.receiver, 0)
             rest == ExpectedReceipts(ns, Tail(txs), my_shard_id)
         IN  IF target_shard # my_shard_id
             THEN <<[original_tx_id |-> tx.id, source_shard |-> my_shard_id,
                     target_shard |-> target_shard, amount |-> tx.amount,
                     receiver |-> tx.receiver, block_hash |-> "pending",
                     status |-> "Pending"]>> \o rest
             ELSE rest

\* A step of the production loop that went past its gates and assembled a block.
RoundStep == pc = "produce" /\ last_round' # last_round

\* C25 (as claimed): the receipts a production round hands to the receipt channel
\* are exactly one Pending receipt per transaction included in the block whose
\* receiver is assigned to another shard than the producer's, with the producer's
\* shard as source, the receiver's shard as target and the transaction's id,
\* amount and receiver; none for a transaction left out, none for a transfer
\* inside the shard.
C25_ReceiptsHanded ==
    [][RoundStep =>
          receipt_channel' =
              receipt_channel \o ExpectedReceipts(nodes, Tail(last_round'.block.transactions),
                                                  last_round'.my_shard)]_vars

\* What the round does: it builds exactly those receipts, and try_send hands over
\* the ones that find room in the channel, in order.
C25_ReceiptsBuilt ==
    last_round.op = "produce" =>
        last_round.receipts = ExpectedReceipts(last_round.nodes_before,
                                               Tail(last_round.block.transactions),
                                               last_round.my_shard)


\* --------------------------------------------------------------------- C26
\* The slots of the previous block (before the round) and of the block of the round.
PrevSlot(round) == round.blocks_before[round.block.index - 1].timestamp \div SLOT_DURATION
NewSlot(round) == round.block.timestamp \div SLOT_DURATION

\* The range law of C26: with n > p + 1 the round leaves the registry that
\* slash_missed_slots makes of the slots p+1 .. n-1 of the producer's shard, which
\* slashes at most once per slot of the range; with n <= p + 1 nobody is slashed.
SlashRangeLaw ==
    LET round == last_round'
        p == PrevSlot(round)
        n == NewSlot(round)
        run == slash_missed_slots_run(nodes, now, p + 1, n - 1, round.my_shard, <<>>)
    IN  IF n > p + 1
        THEN /\ nodes' = run.nodes
             /\ Len(run.slashed_nodes) <= n - p - 1
             /\ \A q \in DOMAIN nodes :
                   nodes'[q].missed_slots - nodes[q].missed_slots
                       = Cardinality({k \in 1..Len(run.slashed_nodes) : run.slashed_nodes[k] = q})
        ELSE nodes' = nodes

\* The leaders of slot s of the round's shard under the registry before the round.
RoundLeaders(s) == ShardLeaders(nodes, now, last_round'.my_shard, s) \ {None}

\* C26 (as claimed): at production of a block with index > 0, the range law holds
\* and the leaders of slot p and of slot n are never slashed by this step.
C26_NeighbourLeadersNeverSlashed ==
    [][(RoundStep /\ last_round'.block.index > 0) =>
          /\ SlashRangeLaw
          /\ \A q \in RoundLeaders(PrevSlot(last_round')) \cup RoundLeaders(NewSlot(last_round')) :
                nodes'[q].missed_slots = nodes[q].missed_slots]_vars

\* C26 (amended): at production of a block with index > 0 the range law holds:
\* slots p and n are outside the slashed range, and a leader of slot p or of slot n
\* is slashed by this step only as the leader of a slot between them.
C26_MissedSlotsSlashed ==
    [][(RoundStep /\ last_round'.block.index > 0) => SlashRangeLaw]_vars

\* A saved round with a gap of slots before its block, after which a node has
\* more missed slots than before the round.
C26_Witness ==
    /\ last_round.op = "produce"
    /\ last_round.saved
    /\ last_round.block.index > 0
    /\ NewSlot(last_round) > PrevSlot(last_round) + 1
    /\ \E q \in DOMAIN last_round.nodes_before :
          nodes[q].missed_slots > last_round.nodes_before[q].missed_slots

\* A saved round without a gap: the registry is the one from before the round.
C26_WitnessNoGap ==
    /\ last_round.op = "produce"
    /\ last_round.saved
    /\ last_round.block.index > 0
    /\ NewSlot(last_round) <= PrevSlot(last_round) + 1
    /\ pc = "top"


\* --------------------------------------------------------------------- C27
\* The P2P loop handles the message it was handed.
Handles(kind) == net_in.kind = kind /\ net_in' = NoMsg

\* The highest index among the blocks of a batch.
RECURSIVE MaxIndexOf(_)
MaxIndexOf(bs) ==
    IF bs = <<>> THEN 0 ELSE Max(Head(bs).index, MaxIndexOf(Tail(bs)))

\* C27 (as claimed): ingesting a foreign block B never lowers chain_index: after
\* the ingest chain_index = max(chain_index before, B.index), for a gossiped block
\* and for the blocks of a sync response alike.
C27_ChainIndexIsMax ==
    [][/\ Handles("gossip_block") => chain_index' = Max(chain_index, net_in.block.index)
       /\ (Handles("sync_block") /\ blocks' # blocks)
             => chain_index' = Max(chain_index, net_in.block.index)
       /\ (Handles("sync_batch") /\ blocks' # blocks)
             => /\ chain_index' >= chain_index
                /\ chain_index' <= Max(chain_index, MaxIndexOf(net_in.blocks))]_vars

\* What the handlers do: the index of the block saved last becomes chain_index.
C27_ChainIndexIsLastSaved ==
    [][/\ Handles("gossip_block") => chain_index' = net_in.block.index
       /\ (Handles("sync_block") /\ blocks' # blocks) => chain_index' = net_in.block.index
       /\ (Handles("sync_batch") /\ blocks' # blocks)
             => \E k \in 1..Len(net_in.blocks) : chain_index' = net_in.blocks[k].index]_vars


\* --------------------------------------------------------------------- C28
\* The registry holds p as an activated, active validator.
MarkedActive(ns, p) ==
    /\ p \in DOMAIN ns
    /\ ns[p].activated_at # None
    /\ ns[p].is_active

\* C28 (as claimed): after a foreign block B is accepted and appended by the
\* ingest path, B.author is in the receiving node's registry with activated_at set
\* and is_active = true: mark_peer_active(B.author) has been applied.
C28_AuthorMarkedActive ==
    [][/\ Handles("gossip_block") => MarkedActive(nodes', net_in.block.author)
       /\ (Handles("sync_block") /\ blocks' # blocks)
             => MarkedActive(nodes', net_in.block.author)]_vars

\* What the handlers do: the registry is the one from before the ingest.
C28_IngestLeavesRegistry ==
    [][(Handles("gossip_block") \/ Handles("sync_block") \/ Handles("sync_batch"))
          => nodes' = nodes]_vars


\* --------------------------------------------------------------------- C29
\* The mining task of the current run is still in the relay phase.
InRelayPhase == phase \in {"relay", "relay_error"}
PastRelayPhase == phase \in {"discovery", "production"}

\* C29 (as claimed): if relay_connected becomes true at any time while the node is
\* running, also after the wait of RELAY_CONNECTION_TIMEOUT seconds has run out
\* and the relay error has been shown, the mining task eventually leaves the relay
\* phase and proceeds to discovery/sync; and no block is produced by the task
\* before it has observed relay_connected = true.
C29_RelayRetry ==
    /\ [](relay_connected => <>(PastRelayPhase \/ ~is_running))
    /\ []((DOMAIN blocks # {} \/ produced # <<>>) => phase = "production")

\* The half of C29 the code keeps: blocks exist only once the task is past the
\* relay phase, which it leaves only by seeing relay_connected = true.
C29_NoBlockBeforeRelay ==
    /\ (DOMAIN blocks # {} \/ produced # <<>>) => phase = "production"
    /\ PastRelayPhase => relay_connected

\* The liveness the code gives: a relay that connects before the wait has run out
\* is noticed.
C29_RelayInTimeNoticed ==
    [](relay_connected /\ phase = "relay" => <>(phase # "relay"))

\* C30: no task is inside CentichainVDF::solve (entered directly, or through
\* verify / verify_peer) while it holds the consensus registry lock.
C30_NoVdfUnderLock == \A t \in vdf_running : registry_lock # t

\* The part of C30 that holds of the code: the Sybil-ticket solve and the solve
\* that seals a block run with the lock not held by their task.
C30_SolveOutsideLock == \A t \in LockTasks : At(t, "solving") => registry_lock # t

C30_SolveOutsideLockWitness == At("solver", "solving") /\ At("miner", "solving") /\ vdf_running = {"solver", "miner"}


\* ------------------------------------------------- shard assignment queries
\* A registry one node short of the second shard, two newcomers that connect,
\* the clock stepping slot by slot over an epoch boundary, and the shard
\* get_shard_leader computes for a peer at the current slot.
ShardNewcomers == {2 * VALIDATORS_PER_SHARD, 2 * VALIDATORS_PER_SHARD + 1}

ShardQueried == 1..MaxShardQueried

ShardStart == EPOCH_DURATION - SLOT_DURATION

ShardTick ==
    /\ now + SLOT_DURATION <= ShardStart + MaxShardSlots * SLOT_DURATION
    /\ now' = now + SLOT_DURATION
    /\ UNCHANGED <<nodes, local_peer_id, rewards>>
    /\ UNCHANGED <<ledgerVars, miningVars, poolVars, auxVars>>

\* The filter of get_shard_leader on one peer: epoch = slot / (EPOCH_DURATION /
\* SLOT_DURATION), then get_assigned_shard(pid, epoch).
ShardQuery(peer_id) ==
    /\ LET slot == now \div SLOT_DURATION
           epoch == slot \div (EPOCH_DURATION \div SLOT_DURATION)
       IN  fn_call' = [ op            |-> "get_assigned_shard",
                        peer_id       |-> peer_id,
                        slot          |-> slot,
                        epoch         |-> epoch,
                        active_shards |-> calculate_active_shards(nodes),
                        shard         |-> get_assigned_shard(nodes, peer_id, epoch) ]
    /\ UNCHANGED <<regVars, ledgerVars, miningVars, poolVars, runVars, sideVars>>

ShardInit ==
    /\ nodes = [p \in 1..(2 * VALIDATORS_PER_SHARD - 1) |-> ShardedRegistry[p]]
    /\ local_peer_id = LocalWallet
    /\ now = ShardStart
    /\ rewards = 0
    /\ MiningIdle
    /\ LedgerFresh
    /\ wallet = LocalWallet
    /\ peer_count = 0

ShardNext ==
    \/ ShardTick
    \/ \E p \in ShardNewcomers : RegisterNode(p)
    \/ \E p \in ShardQueried : ShardQuery(p)

ShardSpec == ShardInit /\ [][ShardNext]_vars

\* C31: two queries of the shard of one peer at slots of one epoch give the
\* same shard, also when nodes are registered between them, and the shard is
\* below calculate_active_shards().
C31_ShardStableInEpoch == [][(fn_call.op = "get_assigned_shard" /\ fn_call'.op = "get_assigned_shard" /\ fn_call'.peer_id = fn_call.peer_id /\ fn_call'.epoch = fn_call.epoch) => (fn_call'.shard = fn_call.shard /\ fn_call'.shard < fn_call'.active_shards)]_vars

\* The part of C31 that holds of the code: the shard is below the shard count.
C31_ShardBelowActive == fn_call.op = "get_assigned_shard" => fn_call.shard < fn_call.active_shards


\* C32: create_genesis_block stores its block at index 0 only if storage holds
\* no block at index 0 at that moment, and a production round picks target
\* index 0 only when storage holds no block at all, whatever the P2P task
\* ingests in between.
C32_GenesisOnlyWhenEmpty == [][((pc = "genesis" /\ pc' # "genesis") => ~has_block(blocks, 0)) /\ ((RoundSaved /\ produced'[Len(produced')].index = 0) => DOMAIN blocks = {})]_vars

\* The part of C32 that holds of the code: a production round picks target
\* index 0 only when storage holds no block at all.
C32_TargetZeroOnlyWhenEmpty == [][(RoundSaved /\ produced'[Len(produced')].index = 0) => DOMAIN blocks = {}]_vars


\* ---------------------------------------------------- prune_history calls
\* Storage::get_latest_index: the last key of the blocks table, 0 when empty.
get_latest_index(bs) ==
    IF DOMAIN bs = {} THEN 0 ELSE CHOOSE i \in DOMAIN bs : \A j \in DOMAIN bs : j <= i

\* The read pass of prune_history: the table is walked in key order up to the
\* first index >= prune_up_to, and the rows whose JSON does not hold an empty
\* transaction list are remembered.
RECURSIVE PruneScan(_, _, _, _)
PruneScan(bs, order, prune_up_to, to_prune) ==
    IF order = <<>> THEN to_prune
    ELSE IF Head(order) >= prune_up_to THEN to_prune
    ELSE PruneScan(bs, Tail(order), prune_up_to,
                   IF bs[Head(order)].transactions # <<>>
                   THEN Append(to_prune, Head(order)) ELSE to_prune)

\* The write pass: each remembered block is rewritten without its transactions.
RECURSIVE PruneWrite(_, _, _)
PruneWrite(bs, to_prune, count) ==
    IF to_prune = <<>> THEN [blocks |-> bs, count |-> count]
    ELSE LET idx == Head(to_prune)
             block == bs[idx]
         IN  IF block.transactions # <<>>
             THEN PruneWrite(PutBlock(bs, [block EXCEPT !.transactions = <<>>]),
                             Tail(to_prune), count + 1)
             ELSE PruneWrite(bs, Tail(to_prune), count)

\* Mutation of prune_history: the block at latest - keep_blocks is pruned too.
PruneThroughBoundary(bs, keep_blocks) ==
    LET latest == get_latest_index(bs)
    IN  IF latest <= keep_blocks THEN [blocks |-> bs, count |-> 0]
        ELSE PruneWrite(bs, PruneScan(bs, AscendingOrder(DOMAIN bs),
                                      latest - keep_blocks + 1, <<>>), 0)

prune_history(bs, keep_blocks) ==
    LET latest == get_latest_index(bs)
    IN  IF latest <= keep_blocks THEN [blocks |-> bs, count |-> 0]
        ELSE PruneWrite(bs, PruneScan(bs, AscendingOrder(DOMAIN bs),
                                      latest - keep_blocks, <<>>), 0)

\* Chains the storage may hold: any set of indices, each block with no
\* transaction, a coinbase or a transfer, saved in index order.
PruneBodies == {<<>>, <<ForeignCoinbase>>, <<ForeignTransfer>>}

PruneTables ==
    UNION { [S -> { ForeignBlock(0, body, TRUE) : body \in PruneBodies }] : S \in SUBSET (0..MaxPruneIndex) }

PruneChain(f) == [i \in DOMAIN f |-> [f[i] EXCEPT !.index = i]]

RECURSIVE SaveAll(_, _, _)
SaveAll(st, bs, order) ==
    IF order = <<>> THEN st
    ELSE SaveAll(save_block_state(st, bs[Head(order)]), bs, Tail(order))

\* One call of prune_history; a read or write error (io_ok = FALSE) returns Err
\* before the write transaction commits.
PruneHistory(keep_blocks, io_ok) ==
    /\ saves < MaxPruneCalls
    /\ saves' = saves + 1
    /\ LET pruned == prune_history(blocks, keep_blocks)
       IN  /\ blocks' = IF io_ok THEN pruned.blocks ELSE blocks
           /\ fn_call' = [ op            |-> "prune_history",
                           keep_blocks   |-> keep_blocks,
                           ok            |-> io_ok,
                           blocks_before |-> blocks,
                           state_before  |-> state,
                           after_keep    |-> IF fn_call.op = "prune_history" /\ fn_call.ok
                                             THEN fn_call.keep_blocks ELSE None,
                           result        |-> IF io_ok THEN pruned.count ELSE None ]
    /\ UNCHANGED <<state, mempool, chain_index, wallet, peer_count, next_uuid, submit_result, net_in>>
    /\ UNCHANGED <<regVars, miningVars, poolVars, runVars, sideVars>>

PruneInit ==
    /\ RegQuiet
    /\ MiningIdle
    /\ wallet = LocalWallet
    /\ peer_count = 1
    /\ mempool = EmptyTable
    /\ chain_index = 0
    /\ next_uuid = 0
    /\ submit_result = "none"
    /\ net_in = NoMsg
    /\ saves = 0
    /\ persisted = EmptyTable
    /\ pool_call = NoCall
    /\ AuxIdle
    /\ \E f \in PruneTables :
          /\ blocks = PruneChain(f)
          /\ state = SaveAll(EmptyTable, PruneChain(f), AscendingOrder(DOMAIN f))

PruneNext == \E keep_blocks \in 0..MaxKeep, io_ok \in BOOLEAN : PruneHistory(keep_blocks, io_ok)

PruneSpec == PruneInit /\ [][PruneNext]_vars

\* The blocks a call of prune_history is to empty: those below latest - keep
\* that still have transactions.
PruneTargets(bs, keep) ==
    { i \in DOMAIN bs : i + keep < get_latest_index(bs) /\ bs[i].transactions # <<>> }

\* C33: a call of prune_history(keep) that returns Ok empties the transaction
\* list of exactly the stored blocks with index < latest - keep that still have
\* transactions and returns their number; header fields, the other blocks, the
\* block count, the latest index and the balances stay; it returns 0 and changes
\* nothing when latest <= keep, and so does a second call right after a first.
C33_PruneLaw ==
    (fn_call.op = "prune_history" /\ fn_call.ok) =>
        LET before == fn_call.blocks_before
            targets == PruneTargets(before, fn_call.keep_blocks)
        IN  /\ DOMAIN blocks = DOMAIN before
            /\ \A i \in DOMAIN before :
                  blocks[i] = IF i \in targets THEN [before[i] EXCEPT !.transactions = <<>>]
                              ELSE before[i]
            /\ fn_call.result = Cardinality(targets)
            /\ get_latest_index(blocks) = get_latest_index(before)
            /\ state = fn_call.state_before
            /\ get_latest_index(before) <= fn_call.keep_blocks => (fn_call.result = 0 /\ blocks = before)
            /\ fn_call.after_keep = fn_call.keep_blocks => (fn_call.result = 0 /\ blocks = before)

\* A call that pruned two blocks and left an empty one and the kept ones alone.
C33_Witness ==
    /\ fn_call.op = "prune_history"
    /\ fn_call.ok
    /\ fn_call.result = 2
    /\ fn_call.keep_blocks = 1
    /\ \E i \in DOMAIN fn_call.blocks_before : i + 1 < get_latest_index(fn_call.blocks_before) /\ fn_call.blocks_before[i].transactions = <<>>
    /\ \E i \in DOMAIN blocks : blocks[i].transactions # <<>>

\* A second call right after a first one with the same keep.
C33_WitnessSecondCall ==
    /\ fn_call.op = "prune_history"
    /\ fn_call.ok
    /\ fn_call.after_keep = fn_call.keep_blocks
    /\ PruneTargets(blocks, fn_call.keep_blocks) = {}
    /\ \E i \in DOMAIN blocks : i + fn_call.keep_blocks < get_latest_index(blocks)


\* ------------------------------------------------ reconcile_with_chain calls
\* Mempool::is_tx_mined: get_block(i) for i = 0, 1, ... until a block holds the
\* id or an index is missing.
RECURSIVE IsTxMinedFrom(_, _, _)
IsTxMinedFrom(bs, i, tx_id) ==
    IF ~has_block(bs, i) THEN FALSE
    ELSE IF \E k \in 1..Len(bs[i].transactions) : bs[i].transactions[k].id = tx_id THEN TRUE
    ELSE IsTxMinedFrom(bs, i + 1, tx_id)

is_tx_mined(bs, tx_id) == IsTxMinedFrom(bs, 0, tx_id)

\* The loop of reconcile_with_chain over the cloned pending transactions.
RECURSIVE ReconcileFrom(_, _, _, _, _)
ReconcileFrom(pool, bs, st, pending_txs, removed_count) ==
    IF pending_txs = <<>> THEN [pool |-> pool, removed_count |-> removed_count]
    ELSE LET tx == Head(pending_txs)
             required == saturating_add(tx.amount, calculate_fee(tx.amount))
         IN  IF is_tx_mined(bs, tx.id)
             THEN ReconcileFrom(remove_transactions(pool, {tx.id}), bs, st,
                                Tail(pending_txs), removed_count + 1)
             ELSE IF tx.sender # SYSTEM /\ Balance(st, tx.sender) < required
             THEN ReconcileFrom(remove_transactions(pool, {tx.id}), bs, st,
                                Tail(pending_txs), removed_count + 1)
             ELSE ReconcileFrom(pool, bs, st, Tail(pending_txs), removed_count)

reconcile_with_chain(pool, bs, st, order) ==
    ReconcileFrom(pool, bs, st, [k \in 1..Len(order) |-> pool[order[k]]], 0)

\* Pending transactions and stored chains of the calls: a coinbase, the peer's
\* transfer and a transfer of the local wallet; blocks at any set of indices.
ReconcileTxs == {ForeignCoinbase, ForeignTransfer, Tx(FOREIGN_TX_BASE + 2, LocalWallet, ForeignPeer, SMALL_AMOUNT, 0)}

ReconcileTables ==
    UNION { [S -> { ForeignBlock(0, body, TRUE) : body \in PruneBodies }] : S \in SUBSET (0..MaxReconcileIndex) }

\* One call of reconcile_with_chain; `failed` are the ids whose persisted row
\* could not be removed (logged only).
ReconcileWithChain(failed) ==
    /\ saves < MaxReconcileCalls
    /\ saves' = saves + 1
    /\ \E order \in IterOrders(DOMAIN mempool) :
          LET done == reconcile_with_chain(mempool, blocks, state, order)
          IN  /\ mempool' = done.pool
              /\ persisted' = remove_pending_txs(persisted, (DOMAIN mempool \ DOMAIN done.pool) \ failed)
              /\ fn_call' = [ op          |-> "reconcile_with_chain",
                              pool_before |-> mempool,
                              result      |-> done.removed_count ]
    /\ UNCHANGED <<blocks, state, chain_index, wallet, peer_count, next_uuid, submit_result, net_in, pool_call>>
    /\ UNCHANGED <<regVars, miningVars, runVars, sideVars>>

ReconcileInit ==
    /\ RegQuiet
    /\ MiningIdle
    /\ wallet = LocalWallet
    /\ peer_count = 1
    /\ chain_index = 0
    /\ next_uuid = 0
    /\ submit_result = "none"
    /\ net_in = NoMsg
    /\ saves = 0
    /\ pool_call = NoCall
    /\ AuxIdle
    /\ \E f \in ReconcileTables :
          /\ blocks = PruneChain(f)
          /\ state = SaveAll(EmptyTable, PruneChain(f), AscendingOrder(DOMAIN f))
    /\ \E txs \in SUBSET ReconcileTxs :
          /\ mempool = [i \in { tx.id : tx \in txs } |-> CHOOSE tx \in txs : tx.id = i]
          /\ persisted = mempool

ReconcileNext == \E failed \in SUBSET { tx.id : tx \in ReconcileTxs } : ReconcileWithChain(failed)

ReconcileSpec == ReconcileInit /\ [][ReconcileNext]_vars

InSomeBlock(tx_id) ==
    \E i \in DOMAIN blocks : \E k \in 1..Len(blocks[i].transactions) : blocks[i].transactions[k].id = tx_id

Unfunded(tx) ==
    tx.sender # SYSTEM /\ Balance(state, tx.sender) < tx.amount + calculate_fee(tx.amount)

\* C34: after reconcile_with_chain no pending transaction remains whose id is in
\* a stored block (whatever indices are stored) or whose non-SYSTEM sender cannot
\* pay amount + fee; every other pending transaction is retained, and the count
\* returned is the number removed.
C34_ReconcileLaw ==
    fn_call.op = "reconcile_with_chain" =>
        /\ \A id \in DOMAIN fn_call.pool_before :
              IF InSomeBlock(id) \/ Unfunded(fn_call.pool_before[id])
              THEN id \notin DOMAIN mempool
              ELSE id \in DOMAIN mempool /\ mempool[id] = fn_call.pool_before[id]
        /\ DOMAIN mempool \subseteq DOMAIN fn_call.pool_before
        /\ fn_call.result = Cardinality(DOMAIN fn_call.pool_before \ DOMAIN mempool)

\* The part of C34 that holds of the code: the law when is_tx_mined's scan
\* reaches every stored block (the stored indices are 0..n without a gap).
C34_ReconcileLawContiguous ==
    (\A i \in DOMAIN blocks : \A j \in 0..i : j \in DOMAIN blocks) => C34_ReconcileLaw


\* ----------------------------- production from a mempool beside block ingest
\* The peer's transfer is pending in the local mempool, and the peer's block at
\* index 1, which holds that transfer, is on its way on the block topic while
\* the production loop runs.
PendingTransfer == [i \in {ForeignTransfer.id} |-> ForeignTransfer]

GossipWithTransfer ==
    [kind |-> "gossip_block", block |-> ForeignBlock(1, <<ForeignCoinbase, ForeignTransfer>>, TRUE)]

IngestProduceInit ==
    /\ local_peer_id = LocalWallet
    /\ now = MiningStart
    /\ rewards = 0
    /\ mempool = PendingTransfer
    /\ persisted = PendingTransfer
    /\ chain_index = 0
    /\ wallet = LocalWallet
    /\ next_uuid = 0
    /\ submit_result = "none"
    /\ net_in = NoMsg
    /\ current_slot = 0
    /\ my_shard = 0
    /\ elapsed = 0
    /\ last_production_time = MiningStart
    /\ mining_enabled = TRUE
    /\ produced = <<>>
    /\ pool_call = NoCall
    /\ AuxIdle
    /\ nodes \in {LocalRegistry, PairRegistry}
    /\ blocks = PutBlock(EmptyTable, GenesisBlock)
    /\ state = save_block_state(EmptyTable, GenesisBlock)
    /\ saves = 1
    /\ pc = "top"
    /\ is_synced = TRUE
    /\ validator_count = Len2(nodes)
    /\ peer_count = 1

IngestProduceNext ==
    \/ MineTick
    \/ MineTop
    \/ MineLeadership
    \/ MineSlotTiming
    \/ MineProduce
    \/ Deliver(GossipWithTransfer)
    \/ HandleGossipBlock

IngestProduceSpec == IngestProduceInit /\ [][IngestProduceNext]_vars

TxIds(b) == { b.transactions[k].id : k \in 1..Len(b.transactions) }

\* C35: no transaction id is included in more than one block of the local
\* chain, however foreign-block ingest interleaves with the node's own
\* production from its mempool.
C35_NoTxInTwoBlocks ==
    \A i, j \in DOMAIN blocks : i # j => TxIds(blocks[i]) \cap TxIds(blocks[j]) = {}

\* What C35 requires of ingest: once a gossiped block is saved, none of its
\* transaction ids is pending.
C35_IngestCleansMempool ==
    [][(net_in.kind = "gossip_block" /\ net_in' = NoMsg) => TxIds(net_in.block) \cap DOMAIN mempool' = {}]_vars


\* C36: after every consensus operation each node is active exactly when its
\* activated_at is set, and a set activated_at keeps its value until the node
\* is demoted (is_active lowered and activated_at cleared together).
C36_ActiveIffActivated == [][(\A p \in DOMAIN nodes' : nodes'[p].is_active <=> nodes'[p].activated_at # None) /\ (\A p \in DOMAIN nodes : nodes[p].activated_at # None => (p \in DOMAIN nodes' /\ (nodes'[p].activated_at = nodes[p].activated_at \/ (nodes'[p].activated_at = None /\ ~nodes'[p].is_active))))]_vars

\* One node still carries the stamp of an earlier time, another was activated,
\* slashed to the floor and demoted.
C36_Witness ==
    \E p, q \in DOMAIN nodes :
        /\ nodes[p].is_active
        /\ nodes[p].activated_at # None
        /\ nodes[p].activated_at < now
        /\ ~nodes[q].is_active
        /\ nodes[q].activated_at = None
        /\ nodes[q].missed_slots > 0
        /\ nodes[q].trust_score = TRUST_FLOOR


\* ------------------------------------------------- the sync exchange
\* The height/batch exchange of the P2P loop with one peer, which answers from
\* its own blocks table with the same request handlers.
NoRequest == [kind |-> "none"]

\* SyncRequest::GetBlocksRange(start, end) at the peer: the stored blocks from
\* start on, up to end or the first missing index.
RECURSIVE BlocksRange(_, _, _)
BlocksRange(bs, start, end) ==
    IF start > end \/ ~has_block(bs, start) THEN <<>>
    ELSE <<bs[start]>> \o BlocksRange(bs, start + 1, end)

\* P2PCommand::SyncWithNetwork: GetHeight goes to the connected peer.
SyncWithNetwork ==
    /\ sync_out = NoRequest
    /\ net_in = NoMsg
    /\ sync_out' = [kind |-> "GetHeight"]
    /\ UNCHANGED <<regVars, ledgerVars, miningVars, poolVars, fn_call, runVars>>
    /\ UNCHANGED <<receipt_channel, last_round, relayVars, lockVars, remote_blocks>>

\* The peer's request handler: GetHeight is answered with get_latest_index (0
\* for an empty table), GetBlocksRange with the batch.
RemoteAnswer ==
    /\ sync_out # NoRequest
    /\ net_in = NoMsg
    /\ net_in' = IF sync_out.kind = "GetHeight"
                 THEN [kind |-> "sync_height", height |-> get_latest_index(remote_blocks)]
                 ELSE [kind |-> "sync_batch",
                       blocks |-> BlocksRange(remote_blocks, sync_out.start, sync_out.end)]
    /\ sync_out' = NoRequest
    /\ UNCHANGED <<blocks, state, mempool, chain_index, wallet, peer_count, next_uuid, submit_result, saves>>
    /\ UNCHANGED <<regVars, miningVars, poolVars, fn_call, runVars>>
    /\ UNCHANGED <<receipt_channel, last_round, relayVars, lockVars, remote_blocks>>

\* p2p.rs, SyncResponse::Height(remote_height).
HandleSyncHeight ==
    /\ net_in.kind = "sync_height"
    /\ LET remote_height == net_in.height
           local_height == chain_index
           total_blocks == Cardinality(DOMAIN blocks)
           start == IF total_blocks = 0 THEN 0 ELSE local_height + 1
       IN  IF remote_height >= start
           THEN /\ sync_out' = [kind |-> "GetBlocksRange", start |-> start,
                                end |-> Min(start + SYNC_BATCH_SPAN, remote_height)]
                /\ UNCHANGED is_synced
           ELSE IF is_synced
           THEN UNCHANGED <<sync_out, is_synced>>
           ELSE IF total_blocks > 0
           THEN /\ is_synced' = TRUE
                /\ UNCHANGED sync_out
           ELSE IF remote_height > 0
           THEN /\ sync_out' = [kind |-> "GetBlocksRange", start |-> 0, end |-> SYNC_GENESIS_SPAN]
                /\ UNCHANGED is_synced
           ELSE UNCHANGED <<sync_out, is_synced>>
    /\ net_in' = NoMsg
    /\ UNCHANGED <<blocks, state, mempool, chain_index, wallet, peer_count, next_uuid, submit_result, saves>>
    /\ UNCHANGED <<pc, current_slot, my_shard, elapsed, last_production_time, mining_enabled, validator_count, produced>>
    /\ UNCHANGED <<regVars, poolVars, fn_call, runVars>>
    /\ UNCHANGED <<receipt_channel, last_round, relayVars, lockVars, remote_blocks>>

\* The chain the two nodes share: block i as its producer sealed it.
SharedChain(n) == [i \in 0..(n - 1) |-> ForeignBlock(i, <<ForeignCoinbase>>, TRUE)]

SyncInit ==
    /\ RegQuiet
    /\ pc = "stopped"
    /\ current_slot = 0
    /\ my_shard = 0
    /\ elapsed = 0
    /\ last_production_time = 0
    /\ is_synced \in BOOLEAN
    /\ mining_enabled = TRUE
    /\ validator_count = 1
    /\ produced = <<>>
    /\ wallet = LocalWallet
    /\ peer_count = 1
    /\ mempool = EmptyTable
    /\ next_uuid = 0
    /\ submit_result = "none"
    /\ net_in = NoMsg
    /\ saves = 0
    /\ persisted = EmptyTable
    /\ pool_call = NoCall
    /\ fn_call = NoCall
    /\ is_running = FALSE
    /\ run_id = 0
    /\ tasks = {}
    /\ receipt_channel = <<>>
    /\ last_round = NoCall
    /\ relay_connected = FALSE
    /\ phase = "none"
    /\ waited = 0
    /\ registry_lock = "free"
    /\ vdf_running = {}
    /\ lock_pc = [t \in {"solver", "p2p", "miner"} |-> [at |-> "idle", peer_id |-> None, proof |-> None]]
    /\ held = [l \in {"wallet", "consensus", "mempool", "tx_sender", "receipt_sender"} |-> "free"]
    /\ lock_at = [t \in {"submit_transaction", "get_consensus_status", "get_wallet_info", "miner", "solver", "p2p"} |-> 1]
    /\ sync_out = NoRequest
    /\ \E n, m \in 0..MaxSyncBlocks :
          /\ blocks = SharedChain(n)
          /\ state = SaveAll(EmptyTable, SharedChain(n), AscendingOrder(DOMAIN SharedChain(n)))
          /\ chain_index = get_latest_index(SharedChain(n))
          /\ remote_blocks = SharedChain(m)

SyncNext ==
    \/ SyncWithNetwork
    \/ RemoteAnswer
    \/ HandleSyncHeight
    \/ HandleSyncBatch

SyncSpec == SyncInit /\ [][SyncNext]_vars

\* The local node holds every block the peer has, and its height is not below
\* the height the peer reported.
HoldsAllRemote ==
    /\ \A i \in DOMAIN remote_blocks : has_block(blocks, i)
    /\ get_latest_index(blocks) >= net_in.height

\* C37: once the local node holds every block the remote reports (both chains
\* empty included), handling a Height response sends no further request.
C37_HeightEndsExchange == [][(net_in.kind = "sync_height" /\ net_in' = NoMsg /\ HoldsAllRemote) => sync_out' = NoRequest]_vars

\* The part of C37 that holds of the code: the same with at least one block
\* stored locally.
C37_HeightEndsExchangeNonEmpty == [][(net_in.kind = "sync_height" /\ net_in' = NoMsg /\ HoldsAllRemote /\ DOMAIN blocks # {}) => sync_out' = NoRequest]_vars


\* ------------------------------------------------ the shared locks, in order
\* Each command handler and each loop as the sequence of lock and unlock
\* operations of one pass, in program order; a guard that is a temporary is
\* unlocked at the end of its statement, a named guard at the end of its block.
Lock(l) == <<"lock", l>>
Unlock(l) == <<"unlock", l>>

SubmitLocks ==
    << Lock("wallet"),
       Lock("mempool"), Unlock("mempool"),
       Lock("consensus"), Unlock("consensus"),
       Lock("mempool"), Unlock("mempool"),
       Lock("tx_sender"), Unlock("tx_sender"),
       Unlock("wallet") >>

\* Mutation of StatusLocks: the registry is locked before the wallet.
StatusLocksRegistryFirst ==
    << Lock("consensus"), Lock("wallet"), Unlock("wallet"), Unlock("consensus") >>

StatusLocks ==
    << Lock("wallet"), Lock("consensus"), Unlock("consensus"), Unlock("wallet") >>

WalletInfoLocks ==
    << Lock("wallet"), Lock("mempool"), Unlock("mempool"), Unlock("wallet") >>

MinerLocks ==
    << Lock("consensus"), Unlock("consensus"),
       Lock("consensus"), Unlock("consensus"),
       Lock("mempool"), Unlock("mempool"),
       Lock("wallet"), Unlock("wallet"),
       Lock("consensus"), Unlock("consensus"),
       Lock("receipt_sender"), Unlock("receipt_sender"),
       Lock("consensus"), Unlock("consensus"),
       Lock("mempool"), Unlock("mempool") >>

SolverLocks ==
    << Lock("consensus"), Unlock("consensus"),
       Lock("consensus"), Unlock("consensus"),
       Lock("consensus"), Unlock("consensus") >>

P2PLocks ==
    << Lock("consensus"), Unlock("consensus"),
       Lock("mempool"), Unlock("mempool"),
       Lock("consensus"), Unlock("consensus") >>

LockUsers == {"submit_transaction", "get_consensus_status", "get_wallet_info", "miner", "solver", "p2p"}

LockProgram(t) ==
    CASE t = "submit_transaction"   -> SubmitLocks
      [] t = "get_consensus_status" -> StatusLocks
      [] t = "get_wallet_info"      -> WalletInfoLocks
      [] t = "miner"                -> MinerLocks
      [] t = "solver"               -> SolverLocks
      [] t = "p2p"                  -> P2PLocks

NextOp(t) == LockProgram(t)[lock_at[t]]

\* Mutex::lock returns once the lock is free; dropping the guard frees it. After
\* its last operation a handler may be invoked again and a loop goes round.
LockStep(t) ==
    /\ LET ins == NextOp(t)
       IN  IF ins[1] = "lock"
           THEN /\ held[ins[2]] = "free"
                /\ held' = [held EXCEPT ![ins[2]] = t]
           ELSE held' = [held EXCEPT ![ins[2]] = "free"]
    /\ lock_at' = [lock_at EXCEPT ![t] = IF @ = Len(LockProgram(t)) THEN 1 ELSE @ + 1]
    /\ UNCHANGED <<regVars, ledgerVars, miningVars, poolVars, fn_call, runVars>>
    /\ UNCHANGED <<receipt_channel, last_round, relayVars, registry_lock, vdf_running, lock_pc, syncVars>>

LockOrderInit == RunInit

LockOrderNext == \E t \in LockUsers : LockStep(t)

LockOrderSpec == LockOrderInit /\ [][LockOrderNext]_vars

\* t waits for a lock that u holds.
WaitsFor(t, u) == NextOp(t)[1] = "lock" /\ held[NextOp(t)[2]] = u

RECURSIVE WaitChain(_, _)
WaitChain(S, n) ==
    IF n = 0 THEN S
    ELSE WaitChain(S \cup { u \in LockUsers : \E t \in S : WaitsFor(t, u) }, n - 1)

\* The tasks t waits for, directly or through the tasks they wait for.
Blockers(t) == WaitChain({ u \in LockUsers : WaitsFor(t, u) }, Cardinality(LockUsers))

\* C38: no task waits for a lock while holding another in an order that closes
\* a cycle: no task is among the tasks it waits for, directly or indirectly.
C38_NoLockCycle == \A t \in LockUsers : t \notin Blockers(t)

\* Two handlers queue behind one another: submit_transaction waits for the
\* wallet that get_consensus_status holds, which waits for the registry that the
\* production loop holds.
C38_Witness ==
    /\ WaitsFor("submit_transaction", "get_consensus_status")
    /\ WaitsFor("get_consensus_status", "miner")
    /\ held["wallet"] = "get_consensus_status"


\* ------------------------------------------------------ reset_chain_data
\* reset_chain_data: Storage::reset_blocks clears the blocks, state and mempool
\* tables in one write transaction, then chain_index is set to 0; when the
\* transaction fails the command returns the error at once.
ResetChainData(io_ok) ==
    /\ blocks' = IF io_ok THEN EmptyTable ELSE blocks
    /\ state' = IF io_ok THEN EmptyTable ELSE state
    /\ persisted' = IF io_ok THEN EmptyTable ELSE persisted
    /\ chain_index' = IF io_ok THEN 0 ELSE chain_index
    /\ pool_call' = [op |-> "reset", result |-> IF io_ok THEN "ok" ELSE "err"]
    /\ UNCHANGED <<mempool, wallet, peer_count, next_uuid, submit_result, net_in, saves>>
    /\ UNCHANGED <<regVars, miningVars, auxVars>>

PersistInit == MempoolInit

PersistNext ==
    \/ MempoolNext
    \/ \E io_ok \in BOOLEAN : ResetChainData(io_ok)

PersistSpec == PersistInit /\ [][PersistNext]_vars

\* The same calls when no storage write fails.
PersistNoFailureNext ==
    \/ \E tx \in PoolTxs : GossipTransaction(tx, TRUE)
    \/ \E ids \in (SUBSET PoolIds) \ {{}} : RemoveTransactions(ids, {})
    \/ LoadFromDb
    \/ ResetChainData(TRUE)

PersistNoFailureSpec == PersistInit /\ [][PersistNoFailureNext]_vars

\* C39: the in-memory pending map and the persisted mempool table hold the same
\* transaction ids after every add_transaction, remove_transactions,
\* load_from_db and reset_chain_data, also when a storage write fails.
C39_PoolMatchesTable == DOMAIN mempool = DOMAIN persisted


\* ---------------------------------------------------------------------- C40
\* The block the production loop built last and the table it was built on.
BuiltBlock == last_round.block
BuiltOn == last_round.blocks_before

\* C40: chain linkage: every block with index i > 0 built by the production
\* loop has i equal to the highest index stored locally plus one and
\* previous_hash equal to the hash of the block stored at index i - 1 at
\* production time, under any interleaving with foreign-block ingest; the
\* all-zero previous_hash is used only for index 0.
C40_ChainLinkage ==
    last_round.op = "produce" =>
        /\ BuiltBlock.index > 0 =>
              /\ BuiltBlock.index = get_latest_index(BuiltOn) + 1
              /\ has_block(BuiltOn, BuiltBlock.index - 1)
              /\ BuiltBlock.previous_hash = BuiltOn[BuiltBlock.index - 1].hash
        /\ BuiltBlock.previous_hash = 0 => BuiltBlock.index = 0

\* The first half alone: the index is one past the highest stored index.
C40_IndexIsNext ==
    last_round.op = "produce" /\ BuiltBlock.index > 0 =>
        BuiltBlock.index = get_latest_index(BuiltOn) + 1

\* The last half alone: the all-zero previous_hash only at index 0.
C40_ZeroHashOnlyAtGenesis ==
    last_round.op = "produce" /\ BuiltBlock.previous_hash = 0 => BuiltBlock.index = 0


====
